---- MODULE Spec2Model ----
(***************************************************************************)
(* Model of the authorization subsystem of python_routes_security:         *)
(*   - app/msal_util/rbac_engine.py : policy loader, role inheritance,     *)
(*     path/method matching and the is_public / is_allowed decisions;      *)
(*   - app/msal_util/jwks_cache.py  : the TTL cache of signing keys;       *)
(*   - app/msal_util/validator.py   : bearer-token validation.             *)
(* Strings that the code inspects character by character (paths and path   *)
(* templates) are sequences of one-character strings.                      *)
(***************************************************************************)
EXTENDS Integers, Sequences, FiniteSets, TLC

(***************************************************************************)
(* Values as yaml.safe_load delivers them.  Every value is a record with a *)
(* field kind: "none" (key absent or null), "scalar" (a number, boolean or *)
(* string where a container is expected; truthy tells bool(value)),        *)
(* "list" (items), "map" (keys in insertion order, val) and, for a path,   *)
(* "absent" / "str".  Claims of a decoded token payload add "text" (a     *)
(* string taken whole), "int", "float" (n + frac/10) and "bool".           *)
(***************************************************************************)
NoneV == [kind |-> "none"]
AbsentV == [kind |-> "absent"]
ScalarV(t) == [kind |-> "scalar", truthy |-> t]
ListV(items) == [kind |-> "list", items |-> items]
MapV(keys, val) == [kind |-> "map", keys |-> keys, val |-> val]
StrV(s) == [kind |-> "str", s |-> s]
EmptyDict == MapV(<<>>, <<>>)
EmptyList == ListV(<<>>)

\* bool(v) of a loaded value
Truthy(v) ==
    CASE v.kind = "none" -> FALSE
      [] v.kind = "absent" -> FALSE
      [] v.kind = "scalar" -> v.truthy
      [] v.kind = "list" -> Len(v.items) > 0
      [] v.kind = "map" -> Len(v.keys) > 0
      [] v.kind = "str" -> Len(v.s) > 0
      [] v.kind = "text" -> v.s # ""
      [] v.kind = "int" -> v.n # 0
      [] v.kind = "float" -> v.n # 0 \/ v.frac # 0
      [] v.kind = "bool" -> v.b

\* the Python expression  v or d
OrDefault(v, d) == IF Truthy(v) THEN v ELSE d

IsDict(v) == v.kind = "map"
IsList(v) == v.kind = "list"

(***************************************************************************)
(* Character helpers                                                       *)
(***************************************************************************)
Range(s) == {s[i] : i \in 1..Len(s)}

RECURSIVE LStrip(_)
LStrip(s) == IF Len(s) > 0 /\ Head(s) = " " THEN LStrip(Tail(s)) ELSE s

RECURSIVE RStrip(_)
RStrip(s) ==
    IF Len(s) > 0 /\ s[Len(s)] = " " THEN RStrip(SubSeq(s, 1, Len(s) - 1)) ELSE s

\* str.strip()
Strip(s) == RStrip(LStrip(s))

\* str(rule.get("path", "")): an absent key gives "", a null gives "None"
PathText(pv) ==
    CASE pv.kind = "absent" -> <<>>
      [] pv.kind = "none" -> <<"N", "o", "n", "e">>
      [] pv.kind = "str" -> pv.s

\* str.upper() on the method names the model draws
Upper(m) ==
    CASE m = "get" -> "GET"
      [] m = "post" -> "POST"
      [] m = "Get" -> "GET"
      [] OTHER -> m

\* _normalize_methods
NormalizeMethods(methods) == {Upper(methods[i]) : i \in 1..Len(methods)}

(***************************************************************************)
(* Path templates.  A compiled pattern is a sequence of tokens:            *)
(*   [t |-> "lit", c |-> ch]  the character ch                             *)
(*   [t |-> "any"]            the regex "." (any character but newline)    *)
(*   [t |-> "param"]          the regex  [^/]+                             *)
(* anchored by ^ and $.                                                    *)
(***************************************************************************)
LitTok(c) == [t |-> "lit", c |-> c]
AnyTok == [t |-> "any"]
ParamTok == [t |-> "param"]

\* the end of the run of non-slash characters that starts at i
RECURSIVE RunEnd(_, _)
RunEnd(tpl, i) ==
    IF i > Len(tpl) \/ tpl[i] = "/" THEN i - 1 ELSE RunEnd(tpl, i + 1)

\* _PATH_PARAM_RE = \{[^/]+\} tried at position i (tpl[i] = "{"): the greedy
\* [^/]+ takes the whole non-slash run and backs off to the last "}" that
\* leaves it at least one character; 0 when there is no match at i.
ParamEnd(tpl, i) ==
    LET e == RunEnd(tpl, i + 1)
        closers == {j \in (i + 2)..e : tpl[j] = "}"}
    IN IF closers = {} THEN 0 ELSE CHOOSE j \in closers : \A k \in closers : k <= j

\* _PATH_PARAM_RE.sub(r"[^/]+", path_template), then re.compile of the text:
\* what is not replaced is regex source, where "." is the wildcard.
RECURSIVE TemplateTokens(_, _)
TemplateTokens(tpl, i) ==
    IF i > Len(tpl) THEN <<>>
    ELSE IF tpl[i] = "{" /\ ParamEnd(tpl, i) # 0
         THEN <<ParamTok>> \o TemplateTokens(tpl, ParamEnd(tpl, i) + 1)
    ELSE IF tpl[i] = "."
         THEN <<AnyTok>> \o TemplateTokens(tpl, i + 1)
    ELSE <<LitTok(tpl[i])>> \o TemplateTokens(tpl, i + 1)

\* _path_template_to_regex
PathTemplateToRegex(path_template) == TemplateTokens(path_template, 1)

\* regex.match(path) for ^tokens$ : tokens from ti against path from pi.
\* "$" matches at the end and before a final newline.
RECURSIVE MatchFrom(_, _, _, _)
MatchFrom(toks, ti, path, pi) ==
    IF ti > Len(toks)
    THEN pi = Len(path) + 1 \/ (pi = Len(path) /\ path[pi] = "\n")
    ELSE IF pi > Len(path) THEN FALSE
    ELSE CASE toks[ti].t = "lit" ->
                  path[pi] = toks[ti].c /\ MatchFrom(toks, ti + 1, path, pi + 1)
           [] toks[ti].t = "any" ->
                  path[pi] # "\n" /\ MatchFrom(toks, ti + 1, path, pi + 1)
           [] toks[ti].t = "param" ->
                  \E e \in pi..Len(path) :
                      /\ \A k \in pi..e : path[k] # "/"
                      /\ MatchFrom(toks, ti + 1, path, e + 1)

RegexMatch(regex, path) == MatchFrom(regex, 1, path, 1)

(***************************************************************************)
(* load_rbac_config.  A result is [ok |-> TRUE, ...] or the raised         *)
(* RbacConfigError [ok |-> FALSE, error |-> <which check>, who |-> <name>].*)
(* RoleDef.extends is None or a non-empty string (the loader turns "" into *)
(* None); None is written NoExtends.                                       *)
(***************************************************************************)
NoExtends == ""

Raise(error, who) == [ok |-> FALSE, error |-> error, who |-> who]

RbacRule(path_template, methods) ==
    [path_template |-> path_template, methods |-> methods]

\* one entry of a rules list or of the public list (lines 154-162, 207-215)
ParseRule(rule, who, notMapping, emptyPath, noMethods) ==
    IF ~IsDict(rule) THEN Raise(notMapping, who)
    ELSE LET path_template == Strip(PathText(rule.path))
             methods_raw == OrDefault(rule.methods, EmptyList)
         IN IF path_template = <<>> THEN Raise(emptyPath, who)
            ELSE IF ~IsList(methods_raw) \/ ~Truthy(methods_raw)
                 THEN Raise(noMethods, who)
            ELSE [ok |-> TRUE,
                  rule |-> RbacRule(path_template, NormalizeMethods(methods_raw.items))]

\* the loop over a list of raw rules: the first failing entry raises
RECURSIVE ParseRules(_, _, _, _, _, _)
ParseRules(items, i, who, notMapping, emptyPath, noMethods) ==
    IF i > Len(items) THEN [ok |-> TRUE, rules |-> <<>>]
    ELSE LET r == ParseRule(items[i], who, notMapping, emptyPath, noMethods)
         IN IF ~r.ok THEN r
            ELSE LET rest == ParseRules(items, i + 1, who, notMapping, emptyPath, noMethods)
                 IN IF ~rest.ok THEN rest
                    ELSE [ok |-> TRUE, rules |-> <<r.rule>> \o rest.rules]

\* one permission (lines 145-168)
ParsePermission(perm_name, perm_val) ==
    IF ~IsDict(perm_val) THEN Raise("permission_not_mapping", perm_name)
    ELSE LET rules_raw == OrDefault(perm_val.rules, EmptyList)
         IN IF ~IsList(rules_raw) THEN Raise("rules_not_list", perm_name)
            ELSE LET rs == ParseRules(rules_raw.items, 1, perm_name,
                                      "rule_not_mapping", "rule_empty_path", "rule_no_methods")
                 IN IF ~rs.ok THEN rs
                    ELSE [ok |-> TRUE,
                          perm |-> [name |-> perm_name, rules |-> rs.rules,
                                    public |-> perm_val.public]]

\* the loop over perms_raw.items() (lines 143-168); val maps the names parsed so far
RECURSIVE ParsePermissions(_, _, _)
ParsePermissions(perms_raw, i, val) ==
    IF i > Len(perms_raw.keys) THEN [ok |-> TRUE, val |-> val]
    ELSE LET name == perms_raw.keys[i]
             p == ParsePermission(name, perms_raw.val[name])
         IN IF ~p.ok THEN p
            ELSE ParsePermissions(perms_raw, i + 1, (name :> p.perm) @@ val)

\* role_val.get("extends"), stripped, "" turned into None (lines 175-177)
ParseExtends(ev) == IF ev.kind = "str" THEN ev.s ELSE NoExtends

\* one role (lines 173-191)
ParseRole(role_name, role_val) ==
    IF ~IsDict(role_val) THEN Raise("role_not_mapping", role_name)
    ELSE LET perms_list == OrDefault(role_val.permissions, EmptyList)
         IN IF ~IsList(perms_list) THEN Raise("role_permissions_not_list", role_name)
            ELSE [ok |-> TRUE,
                  role |-> [name |-> role_name,
                            permissions |-> Range(perms_list.items),
                            extends |-> ParseExtends(role_val.extends)]]

\* the loop over roles_raw.items() (lines 171-191)
RECURSIVE ParseRoles(_, _, _)
ParseRoles(roles_raw, i, val) ==
    IF i > Len(roles_raw.keys) THEN [ok |-> TRUE, val |-> val]
    ELSE LET name == roles_raw.keys[i]
             r == ParseRole(name, roles_raw.val[name])
         IN IF ~r.ok THEN r
            ELSE ParseRoles(roles_raw, i + 1, (name :> r.role) @@ val)

\* "Validate extends targets exist" (lines 194-196): the first offender in
\* roles.values() order, 0 when there is none
FirstBadExtends(keys, roles) ==
    LET bad == {i \in 1..Len(keys) :
                   /\ roles[keys[i]].extends # NoExtends
                   /\ roles[keys[i]].extends \notin DOMAIN roles}
    IN IF bad = {} THEN 0 ELSE CHOOSE i \in bad : \A j \in bad : i <= j

\* "Validate that permissions referenced by roles exist" (lines 199-202)
FirstUnknownPermission(keys, roles, permissions) ==
    LET bad == {i \in 1..Len(keys) :
                   roles[keys[i]].permissions \ DOMAIN permissions # {}}
    IN IF bad = {} THEN 0 ELSE CHOOSE i \in bad : \A j \in bad : i <= j

\* rules of the permissions flagged public, in permissions.values() order
\* (lines 218-220)
RECURSIVE PublicPermissionRules(_, _, _)
PublicPermissionRules(keys, permissions, i) ==
    IF i > Len(keys) THEN <<>>
    ELSE (IF permissions[keys[i]].public THEN permissions[keys[i]].rules ELSE <<>>)
         \o PublicPermissionRules(keys, permissions, i + 1)

\* load_rbac_config(path), from the loaded document on (lines 131-226)
LoadRbacConfig(raw) ==
    LET roles_raw == OrDefault(raw.roles, EmptyDict)
        perms_raw == OrDefault(raw.permissions, EmptyDict)
        public_raw == OrDefault(raw.public, EmptyList)
    IN IF ~IsDict(roles_raw) THEN Raise("roles_not_mapping", "")
       ELSE IF ~IsDict(perms_raw) THEN Raise("permissions_not_mapping", "")
       ELSE IF ~IsList(public_raw) THEN Raise("public_not_list", "")
       ELSE LET ps == ParsePermissions(perms_raw, 1, <<>>)
            IN IF ~ps.ok THEN ps
               ELSE LET rs == ParseRoles(roles_raw, 1, <<>>)
                    IN IF ~rs.ok THEN rs
                       ELSE LET be == FirstBadExtends(roles_raw.keys, rs.val)
                                up == FirstUnknownPermission(roles_raw.keys, rs.val, ps.val)
                            IN IF be # 0 THEN Raise("extends_unknown", roles_raw.keys[be])
                               ELSE IF up # 0
                                    THEN Raise("unknown_permissions", roles_raw.keys[up])
                               ELSE LET pub == ParseRules(public_raw.items, 1, "",
                                                   "public_entry_not_mapping",
                                                   "public_empty_path", "public_no_methods")
                                    IN IF ~pub.ok THEN pub
                                       ELSE [ok |-> TRUE,
                                             config |->
                                               [role_keys |-> roles_raw.keys,
                                                roles |-> rs.val,
                                                perm_keys |-> perms_raw.keys,
                                                permissions |-> ps.val,
                                                public_rules |->
                                                  pub.rules \o
                                                  PublicPermissionRules(perms_raw.keys, ps.val, 1)]]

(***************************************************************************)
(* _compute_effective_permissions: the memoized depth-first traversal.     *)
(* st is the pair of closure variables [effective, visiting].              *)
(***************************************************************************)
\* dfs with the role memoized before its parent is resolved
RECURSIVE dfsMemoFirst(_, _, _)
dfsMemoFirst(config, role_name, st) ==
    IF role_name \in DOMAIN st.effective
    THEN [ok |-> TRUE, st |-> st, result |-> st.effective[role_name]]
    ELSE LET role == config.roles[role_name]
             entered == [st EXCEPT !.effective = (role_name :> role.permissions) @@ @]
             parent == IF role.extends # NoExtends
                       THEN dfsMemoFirst(config, role.extends, entered)
                       ELSE [ok |-> TRUE, st |-> entered, result |-> {}]
             result == role.permissions \cup parent.result
         IN [ok |-> TRUE,
             st |-> [effective |-> (role_name :> result) @@ parent.st.effective,
                     visiting |-> st.visiting],
             result |-> result]

\* dfs that takes the parent's direct permissions instead of its effective set
RECURSIVE dfsDirectParentOnly(_, _, _)
dfsDirectParentOnly(config, role_name, st) ==
    IF role_name \in DOMAIN st.effective
    THEN [ok |-> TRUE, st |-> st, result |-> st.effective[role_name]]
    ELSE IF role_name \in st.visiting THEN Raise("cycle", role_name)
    ELSE LET role == config.roles[role_name]
             entered == [st EXCEPT !.visiting = @ \cup {role_name}]
             parent == IF role.extends # NoExtends
                       THEN dfsDirectParentOnly(config, role.extends, entered)
                       ELSE [ok |-> TRUE, st |-> entered, result |-> {}]
         IN IF ~parent.ok THEN parent
            ELSE LET result == role.permissions \cup
                               (IF role.extends # NoExtends
                                THEN config.roles[role.extends].permissions ELSE {})
                 IN [ok |-> TRUE,
                     st |-> [effective |-> (role_name :> result) @@ parent.st.effective,
                             visiting |-> parent.st.visiting \ {role_name}],
                     result |-> result]

RECURSIVE dfs(_, _, _)
dfs(config, role_name, st) ==
    IF role_name \in DOMAIN st.effective
    THEN [ok |-> TRUE, st |-> st, result |-> st.effective[role_name]]
    ELSE IF role_name \in st.visiting THEN Raise("cycle", role_name)
    ELSE LET role == config.roles[role_name]
             entered == [st EXCEPT !.visiting = @ \cup {role_name}]
             parent == IF role.extends # NoExtends
                       THEN dfs(config, role.extends, entered)
                       ELSE [ok |-> TRUE, st |-> entered, result |-> {}]
         IN IF ~parent.ok THEN parent
            ELSE LET result == role.permissions \cup parent.result
                 IN [ok |-> TRUE,
                     st |-> [effective |-> (role_name :> result) @@ parent.st.effective,
                             visiting |-> parent.st.visiting \ {role_name}],
                     result |-> result]

\* for name in config.roles.keys(): dfs(name)
RECURSIVE EffectiveLoop(_, _, _)
EffectiveLoop(config, i, st) ==
    IF i > Len(config.role_keys) THEN [ok |-> TRUE, effective |-> st.effective]
    ELSE LET r == dfs(config, config.role_keys[i], st)
         IN IF ~r.ok THEN r ELSE EffectiveLoop(config, i + 1, r.st)

ComputeEffectivePermissions(config) ==
    EffectiveLoop(config, 1, [effective |-> <<>>, visiting |-> {}])

(***************************************************************************)
(* RbacEngine                                                              *)
(***************************************************************************)
\* [(regex, methods) for rule in rules]
CompileRules(rules) ==
    [i \in 1..Len(rules) |->
        [regex |-> PathTemplateToRegex(rules[i].path_template),
         methods |-> rules[i].methods]]

\* RbacEngine.__init__
RbacEngineInit(config, effective_permissions) ==
    [config |-> config,
     effective_permissions |-> effective_permissions,
     public_patterns |-> CompileRules(config.public_rules),
     perm_routes |-> [p \in DOMAIN config.permissions |->
                         CompileRules(config.permissions[p].rules)]]

\* RbacEngine.from_yaml, from the loaded document on
FromYaml(raw) ==
    LET cfg == LoadRbacConfig(raw)
    IN IF ~cfg.ok THEN cfg
       ELSE LET eff == ComputeEffectivePermissions(cfg.config)
            IN IF ~eff.ok THEN eff
               ELSE [ok |-> TRUE, engine |-> RbacEngineInit(cfg.config, eff.effective)]

\* RbacEngine._matches_any
MatchesAny(patterns, method, path) ==
    \E i \in 1..Len(patterns) :
        Upper(method) \in patterns[i].methods /\ RegexMatch(patterns[i].regex, path)

\* RbacEngine._required_permissions_for
RequiredPermissionsFor(engine, method, path) ==
    {perm_name \in DOMAIN engine.perm_routes :
        \E i \in 1..Len(engine.perm_routes[perm_name]) :
            /\ Upper(method) \in engine.perm_routes[perm_name][i].methods
            /\ RegexMatch(engine.perm_routes[perm_name][i].regex, path)}

\* RbacEngine.is_public
IsPublic(engine, method, path) == MatchesAny(engine.public_patterns, method, path)

\* the loop of is_allowed that collects user_perms (lines 367-371)
UserPerms(engine, user_roles) ==
    UNION {engine.effective_permissions[role] :
              role \in user_roles \cap DOMAIN engine.effective_permissions}

\* is_allowed without the public short-circuit
IsAllowedNoPublic(engine, user_roles, method, path) ==
    LET required_perms == RequiredPermissionsFor(engine, method, path)
        user_perms == UserPerms(engine, user_roles)
    IN required_perms # {} /\ user_perms \cap required_perms # {}

\* is_allowed that lets a request through when no rule matches it
IsAllowedFailOpen(engine, user_roles, method, path) ==
    IF IsPublic(engine, method, path) THEN TRUE
    ELSE LET required_perms == RequiredPermissionsFor(engine, method, path)
             user_perms == UserPerms(engine, user_roles)
         IN IF required_perms = {} THEN user_perms # {}
            ELSE user_perms \cap required_perms # {}

\* is_allowed that asks for every matching permission instead of any
IsAllowedNeedsAll(engine, user_roles, method, path) ==
    IF IsPublic(engine, method, path) THEN TRUE
    ELSE LET required_perms == RequiredPermissionsFor(engine, method, path)
             user_perms == UserPerms(engine, user_roles)
         IN required_perms # {} /\ required_perms \subseteq user_perms

\* RbacEngine.is_allowed
IsAllowed(engine, user_roles, method, path) ==
    IF IsPublic(engine, method, path) THEN TRUE
    ELSE LET required_perms == RequiredPermissionsFor(engine, method, path)
             user_perms == UserPerms(engine, user_roles)
         IN IF required_perms = {} THEN FALSE
            ELSE IF user_perms = {} THEN FALSE
            ELSE IF user_perms \cap required_perms # {} THEN TRUE
            ELSE FALSE

(***************************************************************************)
(* State                                                                   *)
(***************************************************************************)
VARIABLES
    policy,    \* the policy document handed to the loader, NoPolicy before
    build,     \* outcome of the startup call: status "none", "error",
               \* "loaded" (load_rbac_config returned) or "ready" (engine built)
    decision,  \* the is_allowed call whose result the caller holds, if any
    cache,     \* the JWKSCache: [ttl, data, fetched_at]
    clock,     \* the time, as time.monotonic() and the token library read it
    upstream,  \* the key ids the discovery endpoint publishes now
    calls,     \* per caller: the get_signing_key / validate_and_extract /
               \* resolve_roles_via_graph call in progress, its locals and
               \* its position
    entra,     \* the EntraConfig in use: [graph_enabled, client_secret]
    app_token, \* the module's _app_token_cache: [token, expires_at]
    directory, \* the memberOf pages Graph holds for the user, in link order
    security_config,  \* app.state.security_config: [default, routes, permissions]
    request    \* the request enforce_security or match last handled

vars == <<policy, build, decision, cache, clock, upstream, calls,
          entra, app_token, directory, security_config, request>>
rbacVars == <<policy, build, decision>>
tokenVars == <<cache, clock, upstream, calls>>
graphVars == <<entra, app_token, directory>>
secVars == <<security_config, request>>

\* EntraConfig, as far as the role fallback reads it
EntraConfig(graph_enabled, client_secret) ==
    [graph_enabled |-> graph_enabled, client_secret |-> client_secret]

\* a service credential: when it was acquired and the lifetime it states
Credential(acquired_at, expires_in) ==
    [acquired_at |-> acquired_at, expires_in |-> expires_in]
NoCredential == Credential(0, 0)

\* _AppTokenCache.__init__; credential describes the token held, if any
AppTokenCacheInit ==
    [token |-> FALSE, expires_at |-> 0, credential |-> NoCredential]

NoSecurityConfig == [kind |-> "none"]
NoRequest == [kind |-> "none"]

NoPolicy == [kind |-> "none"]
NoBuild == [status |-> "none"]
NoDecision == [asked |-> FALSE]

Outcome(r, okStatus) ==
    IF r.ok
    THEN IF okStatus = "ready" THEN [status |-> "ready", engine |-> r.engine]
         ELSE [status |-> "loaded", config |-> r.config]
    ELSE [status |-> "error", error |-> r.error, who |-> r.who]

\* process startup: RbacEngine.from_yaml(path), once, on a document of docs
FromYamlCall(docs) ==
    /\ build.status = "none"
    /\ \E raw \in docs :
           /\ policy' = raw
           /\ build' = Outcome(FromYaml(raw), "ready")
    /\ UNCHANGED <<decision, tokenVars, graphVars, secVars>>

\* load_rbac_config(path) called on its own, on a document of docs
LoadRbacConfigCall(docs) ==
    /\ build.status = "none"
    /\ \E raw \in docs :
           /\ policy' = raw
           /\ build' = Outcome(LoadRbacConfig(raw), "loaded")
    /\ UNCHANGED <<decision, tokenVars, graphVars, secVars>>

\* engine.is_allowed(user_roles, method, path); the caller holds the result
IsAllowedCall(roleSets, methods, paths) ==
    /\ build.status = "ready"
    /\ ~decision.asked
    /\ \E user_roles \in roleSets, method \in methods, path \in paths :
           decision' = [asked |-> TRUE, roles |-> user_roles, method |-> method,
                        path |-> path,
                        allowed |-> IsAllowed(build.engine, user_roles, method, path)]
    /\ UNCHANGED <<policy, build, tokenVars, graphVars, secVars>>

\* the caller is done with the result
DecisionConsumed ==
    /\ decision.asked
    /\ decision' = NoDecision
    /\ UNCHANGED <<policy, build, tokenVars, graphVars, secVars>>

(***************************************************************************)
(* Inputs: policy documents, requests                                      *)
(***************************************************************************)
RoleNames == {"admin", "manager", "reader"}
PermNames == {"a", "b", "c"}
PermKeys == <<"a", "b", "c">>

\* /d   /d/{i}   /s
TplDocs == <<"/", "d">>
TplDoc == <<"/", "d", "/", "{", "i", "}">>
TplStatus == <<"/", "s">>

\* /d   /d/7   /d/7/x   /s   /x
RequestPaths ==
    {<<"/", "d">>, <<"/", "d", "/", "7">>, <<"/", "d", "/", "7", "/", "x">>,
     <<"/", "s">>, <<"/", "x">>}
RequestMethods == {"GET", "get", "POST"}

\* the largest role set a caller presents
MaxRoles == 2
CallerRoleSets ==
    {rs \in SUBSET (RoleNames \cup {"unknown"}) : Cardinality(rs) <= MaxRoles}

RawRule(tpl, methods) == [kind |-> "map", path |-> StrV(tpl), methods |-> ListV(methods)]
RawPerm(public, rules) == [kind |-> "map", public |-> public, rules |-> ListV(rules)]
RawRole(extends, perms) ==
    [kind |-> "map",
     extends |-> IF extends = NoExtends THEN NoneV ELSE StrV(extends),
     permissions |-> ListV(perms)]

\* policies for the decision API: admin extends manager extends reader
QueryDocs ==
    {[roles |-> MapV(<<"reader", "manager", "admin">>,
                     [r \in RoleNames |->
                         CASE r = "reader" -> RawRole(NoExtends, rp)
                           [] r = "manager" -> RawRole("reader", mp)
                           [] r = "admin" -> RawRole("manager", ap)]),
      permissions |-> MapV(PermKeys,
                     [p \in PermNames |->
                         CASE p = "a" -> RawPerm(FALSE, ar)
                           [] p = "b" -> RawPerm(FALSE, br)
                           [] p = "c" -> RawPerm(cpub, cr)]),
      public |-> ListV(pub)] :
        rp \in {<<>>, <<"a">>},
        mp \in {<<"b">>, <<"a", "b">>},
        ap \in {<<>>, <<"c">>},
        ar \in {<<RawRule(TplDocs, <<"GET">>)>>,
                <<RawRule(TplDocs, <<"get">>), RawRule(TplDoc, <<"GET">>)>>},
        br \in {<<>>, <<RawRule(TplDocs, <<"POST">>)>>,
                <<RawRule(TplDoc, <<"GET", "POST">>)>>},
        cr \in {<<RawRule(TplDocs, <<"POST">>)>>, <<RawRule(TplStatus, <<"GET">>)>>},
        cpub \in BOOLEAN,
        pub \in {<<>>, <<RawRule(TplStatus, <<"GET">>)>>, <<RawRule(TplDoc, <<"get">>)>>}}

\* policies for inheritance: every parent assignment over the defined roles,
\* every order of the role keys
KeyOrders ==
    {o \in [1..Cardinality(RoleNames) -> RoleNames] :
        \A i, j \in DOMAIN o : o[i] = o[j] => i = j}
DirectChoices == {<<>>, <<"a">>, <<"b">>, <<"a", "c">>}
FixedPermissions ==
    MapV(PermKeys,
         [p \in PermNames |->
             CASE p = "a" -> RawPerm(FALSE, <<RawRule(TplDocs, <<"GET">>)>>)
               [] p = "b" -> RawPerm(FALSE, <<RawRule(TplDocs, <<"POST">>)>>)
               [] p = "c" -> RawPerm(FALSE, <<RawRule(TplStatus, <<"GET">>)>>)])
GraphDocs ==
    {[roles |-> MapV(o, [r \in RoleNames |-> RawRole(ext[r], direct[r])]),
      permissions |-> FixedPermissions,
      public |-> EmptyList] :
        o \in KeyOrders,
        ext \in [RoleNames -> RoleNames \cup {NoExtends}],
        direct \in [RoleNames -> DirectChoices]}

\* documents with every shape of section, entry and field the loader tests
RawRuleV(pathV, methodsV) == [kind |-> "map", path |-> pathV, methods |-> methodsV]
GoodRule == RawRule(TplDocs, <<"GET">>)
MapOne(key, v) == MapV(<<key>>, (key :> v))

RolesShapes ==
    {NoneV, ScalarV(FALSE), ScalarV(TRUE), EmptyList, ListV(<<ScalarV(TRUE)>>),
     MapOne("reader", RawRole(NoExtends, <<"a">>)),
     MapOne("reader", RawRole(NoExtends, <<>>)),
     MapOne("reader", ScalarV(TRUE)),
     MapOne("reader", RawRole("ghost", <<>>)),
     MapOne("reader", RawRole(NoExtends, <<"zz">>)),
     MapOne("reader", [kind |-> "map", extends |-> NoneV, permissions |-> ScalarV(TRUE)]),
     MapOne("reader", [kind |-> "map", extends |-> StrV(""), permissions |-> NoneV]),
     MapV(<<"manager", "reader">>,
          ("manager" :> RawRole("reader", <<"a">>)) @@ ("reader" :> RawRole(NoExtends, <<>>)))}

PermissionsShapes ==
    {NoneV, ScalarV(TRUE), EmptyList,
     MapOne("a", ScalarV(TRUE)),
     MapOne("a", [kind |-> "map", public |-> FALSE, rules |-> ScalarV(TRUE)]),
     MapOne("a", [kind |-> "map", public |-> FALSE, rules |-> ScalarV(FALSE)]),
     MapOne("a", RawPerm(FALSE, <<GoodRule>>)),
     MapOne("a", RawPerm(TRUE, <<GoodRule>>)),
     MapOne("a", RawPerm(FALSE, <<GoodRule, ScalarV(TRUE)>>)),
     MapOne("a", RawPerm(FALSE, <<RawRuleV(AbsentV, ListV(<<"GET">>))>>)),
     MapOne("a", RawPerm(FALSE, <<RawRuleV(NoneV, ListV(<<"GET">>))>>)),
     MapOne("a", RawPerm(FALSE, <<RawRuleV(StrV(<<" ", " ">>), ListV(<<"GET">>))>>)),
     MapOne("a", RawPerm(FALSE, <<RawRuleV(StrV(<<" ", "/", "d", " ">>), ListV(<<"get">>))>>)),
     MapOne("a", RawPerm(FALSE, <<RawRuleV(StrV(TplDocs), EmptyList)>>)),
     MapOne("a", RawPerm(FALSE, <<RawRuleV(StrV(TplDocs), NoneV)>>)),
     MapOne("a", RawPerm(FALSE, <<RawRuleV(StrV(TplDocs), ScalarV(TRUE))>>))}

PublicShapes ==
    {NoneV, ScalarV(TRUE), EmptyDict,
     ListV(<<RawRule(TplStatus, <<"GET">>)>>),
     ListV(<<ScalarV(TRUE)>>),
     ListV(<<RawRuleV(AbsentV, ListV(<<"GET">>))>>),
     ListV(<<RawRuleV(NoneV, ListV(<<"GET">>))>>),
     ListV(<<RawRuleV(StrV(TplStatus), EmptyList)>>)}

ShapeDocs ==
    {[roles |-> r, permissions |-> p, public |-> u] :
        r \in RolesShapes, p \in PermissionsShapes, u \in PublicShapes}


(***************************************************************************)
(* JWKSCache (jwks_cache.py).  A key set is the set of key ids it holds;   *)
(* the key published under a key id is named by that id.                   *)
(***************************************************************************)
Kids == {"k1", "k2"}
Threads == {"t1"}

\* largest configured ttl, last instant of the clock, configured leeway
MaxTtl == 2
MaxClock == 3
ClockSkew == 1

NoData == [none |-> TRUE, kids |-> {}]
KeySet(kids) == [none |-> FALSE, kids |-> kids]

\* JWKSCache.__init__; data_by and fetched_at_by name the caller whose
\* _refresh assigned the attribute last ("init": the constructor)
JWKSCacheInit(ttl_seconds) ==
    [ttl |-> ttl_seconds, data |-> NoData, fetched_at |-> 0,
     data_by |-> "init", fetched_at_by |-> "init"]

NoKey == [found |-> FALSE, kid |-> ""]
Key(kid) == [found |-> TRUE, kid |-> kid]

\* JWKSCache._find_key
FindKey(kid, data) == IF kid \in data.kids THEN Key(kid) ELSE NoKey

\* _ensure_fresh with > where the code has >=
IsStaleStrict(c, now) == c.data.none \/ (now - c.fetched_at) > c.ttl

\* the test of JWKSCache._ensure_fresh (line 59)
IsStale(c, now) == c.data.none \/ (now - c.fetched_at) >= c.ttl

\* the forced refresh skipped when this call has already fetched
ForcedRefreshUnlessFetched(c, key) == ~key.found /\ c.fetches = 0

\* get_signing_key goes on to the forced refresh (lines 79-84)
ForcedRefreshWanted(c, key) == ~key.found

(***************************************************************************)
(* _extract_claims (validator.py): payload to TokenContext                 *)
(***************************************************************************)
TextV(s) == [kind |-> "text", s |-> s]
IntV(n) == [kind |-> "int", n |-> n]
FloatV(n, frac) == [kind |-> "float", n |-> n, frac |-> frac]
BoolV(b) == [kind |-> "bool", b |-> b]

\* isinstance(v, (int, float)); bool is a subclass of int
IsNumber(v) == v.kind \in {"int", "float", "bool"}
IsStr(v) == v.kind \in {"text", "str"}

\* int(v) of a number: truncation
IntOf(v) ==
    CASE v.kind = "int" -> v.n
      [] v.kind = "float" -> v.n
      [] v.kind = "bool" -> IF v.b THEN 1 ELSE 0

\* str(v)
Str(v) ==
    CASE v.kind = "text" -> v.s
      [] v.kind = "str" -> v.s
      [] v.kind = "int" -> ToString(v.n)
      [] v.kind = "float" -> ToString(v.n) \o "." \o ToString(v.frac)
      [] v.kind = "bool" -> IF v.b THEN "True" ELSE "False"
      [] v.kind = "none" -> "None"

Whitespace == {" ", "\t", "\n"}

\* str.split(): the maximal runs of non-whitespace characters, in order;
\* word is the run being read
RECURSIVE SplitFrom(_, _, _)
SplitFrom(s, i, word) ==
    IF i > Len(s)
    THEN IF word = <<>> THEN <<>> ELSE <<word>>
    ELSE IF s[i] \in Whitespace
         THEN IF word = <<>> THEN SplitFrom(s, i + 1, <<>>)
              ELSE <<word>> \o SplitFrom(s, i + 1, <<>>)
         ELSE SplitFrom(s, i + 1, Append(word, s[i]))

Split(s) == SplitFrom(s, 1, <<>>)

\* payload.get(name): None when the key is absent
Payload(oid, sub, roles, department, scp, preferred_username) ==
    [oid |-> oid, sub |-> sub, roles |-> roles, department |-> department,
     scp |-> scp, preferred_username |-> preferred_username]

TokenContext(user_id, roles, department, scopes, preferred_username) ==
    [user_id |-> user_id, roles |-> roles, department |-> department,
     scopes |-> scopes, preferred_username |-> preferred_username]

\* lines 73-74
UserId(payload) ==
    LET user_id == OrDefault(payload.oid, OrDefault(payload.sub, TextV("")))
    IN IF IsNumber(user_id) THEN ToString(IntOf(user_id)) ELSE Str(user_id)

\* lines 76-80
Roles(payload) ==
    LET raw_roles == payload.roles
    IN IF IsList(raw_roles)
       THEN [i \in 1..Len(raw_roles.items) |-> Str(raw_roles.items[i])]
       ELSE IF IsStr(raw_roles) THEN <<Str(raw_roles)>>
       ELSE <<>>

\* lines 82-84
Department(payload) ==
    IF payload.department.kind # "absent" /\ Truthy(payload.department)
    THEN TextV(Str(payload.department))
    ELSE NoneV

\* lines 86-91; s.strip() changes no part that split() returns
Scopes(payload) ==
    LET scp == payload.scp
    IN IF scp.kind = "str" THEN Split(scp.s)
       ELSE IF IsList(scp) THEN [i \in 1..Len(scp.items) |-> Str(scp.items[i])]
       ELSE <<>>

\* lines 93-95
PreferredUsername(payload) ==
    IF payload.preferred_username.kind \in {"absent", "none"}
    THEN NoneV
    ELSE TextV(Str(payload.preferred_username))

\* _extract_claims that takes sub before oid
ExtractClaimsSubFirst(payload) ==
    TokenContext(UserId([payload EXCEPT !.oid = payload.sub, !.sub = payload.oid]),
                 Roles(payload), Department(payload), Scopes(payload),
                 PreferredUsername(payload))

\* _extract_claims
ExtractClaims(payload) ==
    TokenContext(UserId(payload), Roles(payload), Department(payload),
                 Scopes(payload), PreferredUsername(payload))

(***************************************************************************)
(* Tokens and jwt.decode as validate_and_extract calls it                  *)
(***************************************************************************)
NoKid == ""
\* the claims of a token issued to a user with an app role
DefaultPayload ==
    Payload(TextV("o1"), TextV("s1"), ListV(<<TextV("admin")>>),
            AbsentV, AbsentV, AbsentV)

Token(kid, signer, exp, nbf, iss_ok, aud_ok) ==
    [kid |-> kid, signer |-> signer, exp |-> exp, nbf |-> nbf,
     iss_ok |-> iss_ok, aud_ok |-> aud_ok, payload |-> DefaultPayload]
TokenWithPayload(token, payload) == [token EXCEPT !.payload = payload]
NoToken == Token(NoKid, "", {}, {}, FALSE, FALSE)

\* exp and nbf are sets: empty when the claim is absent
Tokens ==
    {Token(k, k, {}, {}, TRUE, TRUE) : k \in Kids}
    \cup {Token(NoKid, "k1", {}, {}, TRUE, TRUE),
          Token("k1", "forged", {}, {}, TRUE, TRUE),
          Token("k1", "k2", {}, {}, TRUE, TRUE),
          Token("k1", "k1", {}, {}, FALSE, TRUE),
          Token("k1", "k1", {}, {}, TRUE, FALSE),
          Token("k2", "k2", {0}, {}, FALSE, FALSE)}
    \cup {Token("k1", "k1", {e}, {}, TRUE, TRUE) : e \in 0..2}
    \cup {Token("k1", "k1", {}, {n}, TRUE, TRUE) : n \in 2..3}

\* _get_kid: the header's kid, None when missing or unreadable
GetKid(token) == token.kid

\* PyJWT: exp <= now - leeway raises ExpiredSignatureError
Expired(token, now, leeway) == \E e \in token.exp : e <= now - leeway
\* PyJWT: nbf > now + leeway raises ImmatureSignatureError
Immature(token, now, leeway) == \E n \in token.nbf : n > now + leeway

\* jwt.decode(token, signing_key.key, algorithms, audience, issuer, leeway,
\* options) (lines 148-162): signature, then nbf, exp, iss, aud
JwtDecode(token, key, now, leeway) ==
    IF token.signer # key.kid THEN [ok |-> FALSE, exc |-> "InvalidTokenError"]
    ELSE IF Immature(token, now, leeway) THEN [ok |-> FALSE, exc |-> "InvalidTokenError"]
    ELSE IF Expired(token, now, leeway) THEN [ok |-> FALSE, exc |-> "ExpiredSignatureError"]
    ELSE IF ~token.iss_ok THEN [ok |-> FALSE, exc |-> "InvalidIssuerError"]
    ELSE IF ~token.aud_ok THEN [ok |-> FALSE, exc |-> "InvalidAudienceError"]
    ELSE [ok |-> TRUE, exc |-> ""]

\* the except clauses of validate_and_extract (lines 163-174)
ValidationMessage(exc) ==
    CASE exc = "ExpiredSignatureError" -> "Token expired"
      [] exc = "InvalidIssuerError" -> "Invalid token: issuer"
      [] exc = "InvalidAudienceError" -> "Invalid token: audience"
      [] OTHER -> "Invalid token"

(***************************************************************************)
(* resolve_roles_via_graph (graph_client.py).  The pages of the memberOf   *)
(* listing are numbered in link order: url k asks for page k, url 0 is no  *)
(* url (None); page k carries @odata.nextLink k + 1 unless it is the last. *)
(***************************************************************************)
GroupTypes == {"#microsoft.graph.group", "#microsoft.graph.directoryRole"}

Entry(odata_type, display_name) ==
    [odata_type |-> odata_type, display_name |-> display_name]

\* body.get("@odata.nextLink") of page k of the listing
NextLink(listing, k) == IF k < Len(listing) THEN k + 1 ELSE 0

\* the entry loop without the test of @odata.type
RECURSIVE PageRolesAnyType(_)
PageRolesAnyType(value) ==
    IF value = <<>> THEN <<>>
    ELSE LET entry == Head(value)
         IN (IF Truthy(entry.display_name)
             THEN <<Str(entry.display_name)>> ELSE <<>>)
            \o PageRolesAnyType(Tail(value))

\* the for loop over body.get("value") (lines 128-134): the display names
\* the page adds to roles
RECURSIVE PageRoles(_)
PageRoles(value) ==
    IF value = <<>> THEN <<>>
    ELSE LET entry == Head(value)
         IN (IF entry.odata_type \in GroupTypes /\ Truthy(entry.display_name)
             THEN <<Str(entry.display_name)>> ELSE <<>>)
            \o PageRoles(Tail(value))

\* the app token is kept for max(expires_in - 300, 60) seconds
SafetyMargin == 300
MinCacheSeconds == 60
ExpiresAfter(expires_in) ==
    IF expires_in - SafetyMargin > MinCacheSeconds
    THEN expires_in - SafetyMargin ELSE MinCacheSeconds

\* _AppTokenCache.get_or_refresh answers from the cache (line 58)
AppTokenCached(c, now) == c.token /\ now < c.expires_at

NoRoles == [kind |-> "none"]
RolesReturned(roles) == [kind |-> "roles", roles |-> roles]
RolesRaised(exc) == [kind |-> "raise", exc |-> exc]

\* the locals of a resolve_roles_via_graph call, the requests it has sent
\* (posts: token requests; asked: the urls of its GETs, in order), the
\* credential get_or_refresh gave it and when, and the failure it met, if any
GraphIdle ==
    [user_oid |-> "", url |-> 0, roles |-> <<>>, posts |-> 0, asked |-> <<>>,
     failure |-> "none", result |-> NoRoles, served |-> NoCredential,
     served_at |-> 0]

(***************************************************************************)
(* Calls in progress                                                       *)
(***************************************************************************)
Pending == [kind |-> "pending"]
Raised(exc, msg) == [kind |-> "raise", exc |-> exc, msg |-> msg]
Returned(key) == [kind |-> "key", key |-> key]
Identity(token) ==
    [kind |-> "identity", token |-> token, ctx |-> ExtractClaims(token.payload)]

NoEntry == [data |-> NoData, fetched_at |-> 0, now |-> 0]

IdleCall ==
    [pc |-> "idle", op |-> "none", token |-> NoToken, kid |-> NoKid,
     now |-> 0, data |-> NoData, fetched |-> NoData, purpose |-> "none",
     first |-> NoData, entry |-> NoEntry,
     fetches |-> 0, forced |-> 0, failed |-> FALSE, result |-> Pending,
     g |-> GraphIdle, lookups |-> 0]

\* entry of get_signing_key(kid): nothing read yet
EnterGetSigningKey(c, op, token, kid) ==
    [IdleCall EXCEPT !.pc = "ensure", !.op = op, !.token = token, !.kid = kid,
                     !.entry = [data |-> cache.data, fetched_at |-> cache.fetched_at,
                                now |-> clock]]

\* time passes
Tick ==
    /\ clock < MaxClock
    /\ clock' = clock + 1
    /\ UNCHANGED <<rbacVars, graphVars, secVars, cache, upstream, calls>>

\* seconds pass between calls
Elapse(deltas, limit) ==
    /\ \E d \in deltas : clock + d <= limit /\ clock' = clock + d
    /\ UNCHANGED <<rbacVars, graphVars, secVars, cache, upstream, calls>>

\* the identity provider rotates its signing keys
Rotate ==
    /\ \E ks \in SUBSET Kids : ks # upstream /\ upstream' = ks
    /\ UNCHANGED <<rbacVars, graphVars, secVars, cache, clock, calls>>

\* a caller enters cache.get_signing_key(kid)
CallGetSigningKey(t) ==
    /\ calls[t].pc = "idle"
    /\ \E kid \in Kids :
           calls' = [calls EXCEPT ![t] = EnterGetSigningKey(@, "key", NoToken, kid)]
    /\ UNCHANGED <<rbacVars, graphVars, secVars, cache, clock, upstream>>

\* _ensure_fresh (lines 58-61): read the clock, refresh or return the cache
EnsureFresh(t) ==
    /\ calls[t].pc = "ensure"
    /\ calls' = [calls EXCEPT ![t] =
                    IF IsStale(cache, clock)
                    THEN [@ EXCEPT !.pc = "fetch", !.purpose = "ttl", !.now = clock]
                    ELSE [@ EXCEPT !.pc = "find", !.now = clock,
                                   !.data = cache.data, !.first = cache.data]]
    /\ UNCHANGED <<rbacVars, graphVars, secVars, cache, clock, upstream>>

\* _fetch (lines 45-47) answers with the published key set
FetchOk(t) ==
    /\ calls[t].pc = "fetch"
    /\ calls' = [calls EXCEPT ![t] =
                    [@ EXCEPT !.pc = "store_data", !.fetched = KeySet(upstream),
                              !.fetches = @ + 1,
                              !.forced = @ + (IF calls[t].purpose = "forced" THEN 1 ELSE 0)]]
    /\ UNCHANGED <<rbacVars, graphVars, secVars, cache, clock, upstream>>

\* a failed _fetch that also forgets the cached key set
FetchFailDropsCache(t) ==
    /\ calls[t].pc = "fetch"
    /\ calls' = [calls EXCEPT ![t] =
                    [@ EXCEPT !.pc = "key_done", !.failed = TRUE,
                              !.fetches = @ + 1,
                              !.forced = @ + (IF calls[t].purpose = "forced" THEN 1 ELSE 0),
                              !.result = Raised("RequestException", "")]]
    /\ cache' = [cache EXCEPT !.data = NoData, !.fetched_at = clock]
    /\ UNCHANGED <<rbacVars, graphVars, secVars, clock, upstream>>

\* _fetch raises: connection error, timeout or raise_for_status; the
\* exception leaves _refresh and get_signing_key
FetchFail(t) ==
    /\ calls[t].pc = "fetch"
    /\ calls' = [calls EXCEPT ![t] =
                    [@ EXCEPT !.pc = "key_done", !.failed = TRUE,
                              !.fetches = @ + 1,
                              !.forced = @ + (IF calls[t].purpose = "forced" THEN 1 ELSE 0),
                              !.result = Raised("RequestException", "")]]
    /\ UNCHANGED <<rbacVars, graphVars, secVars, cache, clock, upstream>>

\* _refresh: self._data = <fetched> (line 51)
StoreData(t) ==
    /\ calls[t].pc = "store_data"
    /\ cache' = [cache EXCEPT !.data = calls[t].fetched, !.data_by = t]
    /\ calls' = [calls EXCEPT ![t] = [@ EXCEPT !.pc = "store_time"]]
    /\ UNCHANGED <<rbacVars, graphVars, secVars, clock, upstream>>

\* _refresh: self._fetched_at = time.monotonic(); return self._data
\* (lines 52-54)
StoreTime(t) ==
    /\ calls[t].pc = "store_time"
    /\ cache' = [cache EXCEPT !.fetched_at = clock, !.fetched_at_by = t]
    /\ calls' = [calls EXCEPT ![t] =
                    IF calls[t].purpose = "ttl"
                    THEN [@ EXCEPT !.pc = "find", !.data = cache.data,
                                   !.first = cache.data]
                    ELSE [@ EXCEPT !.pc = "find_again", !.data = cache.data]]
    /\ UNCHANGED <<rbacVars, graphVars, secVars, clock, upstream>>

\* get_signing_key: the first lookup (lines 78-84)
FindFirst(t) ==
    /\ calls[t].pc = "find"
    /\ LET key == FindKey(calls[t].kid, calls[t].data)
       IN calls' = [calls EXCEPT ![t] =
                       IF ForcedRefreshWanted(calls[t], key)
                       THEN [@ EXCEPT !.pc = "fetch", !.purpose = "forced"]
                       ELSE [@ EXCEPT !.pc = "key_done", !.result = Returned(key)]]
    /\ UNCHANGED <<rbacVars, graphVars, secVars, cache, clock, upstream>>

\* get_signing_key: the lookup after the forced refresh (line 85)
FindAgain(t) ==
    /\ calls[t].pc = "find_again"
    /\ calls' = [calls EXCEPT ![t] =
                    [@ EXCEPT !.pc = "key_done",
                              !.result = Returned(FindKey(calls[t].kid, calls[t].data))]]
    /\ UNCHANGED <<rbacVars, graphVars, secVars, cache, clock, upstream>>

\* the direct caller of get_signing_key takes the result
ReturnKey(t) ==
    /\ calls[t].pc = "key_done"
    /\ calls[t].op = "key"
    /\ calls' = [calls EXCEPT ![t] = IdleCall]
    /\ UNCHANGED <<rbacVars, graphVars, secVars, cache, clock, upstream>>

(***************************************************************************)
(* EntraTokenValidator.validate_and_extract (validator.py)                 *)
(***************************************************************************)
\* a caller enters validator.validate_and_extract(token)
CallValidateWith(t, tokens) ==
    /\ calls[t].pc = "idle"
    /\ \E token \in tokens :
           calls' = [calls EXCEPT ![t] =
                        [IdleCall EXCEPT !.pc = "get_kid", !.op = "validate",
                                         !.token = token]]
    /\ UNCHANGED <<rbacVars, graphVars, secVars, cache, clock, upstream>>

CallValidate(t) == CallValidateWith(t, Tokens)

\* a caller enters the module-level validate_and_extract(token, config)
\* when no other validation is under way: a new EntraTokenValidator with a
\* new JWKSCache is built, and its method is entered (lines 204-205)
CallModuleValidate(t, tokens) ==
    /\ calls[t].pc = "idle"
    /\ \A u \in DOMAIN calls \ {t} : calls[u].pc \in {"idle", "returned"}
    /\ cache' = JWKSCacheInit(cache.ttl)
    /\ \E token \in tokens :
           calls' = [calls EXCEPT ![t] =
                        [IdleCall EXCEPT !.pc = "get_kid", !.op = "validate",
                                         !.token = token]]
    /\ UNCHANGED <<rbacVars, graphVars, secVars, clock, upstream>>

\* lines 137-140: no kid raises, otherwise get_signing_key(kid) is entered
KidStep(t) ==
    /\ calls[t].pc = "get_kid"
    /\ LET kid == GetKid(calls[t].token)
       IN calls' = [calls EXCEPT ![t] =
                       IF kid = NoKid
                       THEN [@ EXCEPT !.pc = "returned",
                                      !.result = Raised("ValidationError",
                                                        "Invalid token: missing key id")]
                       ELSE EnterGetSigningKey(@, "validate", calls[t].token, kid)]
    /\ UNCHANGED <<rbacVars, graphVars, secVars, cache, clock, upstream>>

\* lines 142-145: get_signing_key is called outside any try block, so what
\* it raises leaves validate_and_extract as it is; None raises
KeyStep(t) ==
    /\ calls[t].pc = "key_done"
    /\ calls[t].op = "validate"
    /\ calls' = [calls EXCEPT ![t] =
                    IF calls[t].result.kind = "raise"
                    THEN [@ EXCEPT !.pc = "returned"]
                    ELSE IF ~calls[t].result.key.found
                    THEN [@ EXCEPT !.pc = "returned",
                                   !.result = Raised("ValidationError",
                                                     "Invalid token: unknown signing key")]
                    ELSE [@ EXCEPT !.pc = "decode"]]
    /\ UNCHANGED <<rbacVars, graphVars, secVars, cache, clock, upstream>>

\* the fallback is entered whatever roles the token carries
FallbackWantedAlways(ctx, payload) ==
    /\ entra.graph_enabled
    /\ Truthy(OrDefault(payload.oid, payload.sub))

\* lines 179-181: no roles in the token, fallback enabled, an oid or sub
FallbackWanted(ctx, payload) ==
    /\ Len(ctx.roles) = 0
    /\ entra.graph_enabled
    /\ Truthy(OrDefault(payload.oid, payload.sub))

\* resolve_roles_via_graph(user_oid, config) is entered
EnterResolve(c, op, user_oid) ==
    [c EXCEPT !.pc = "resolve", !.op = op, !.g = [GraphIdle EXCEPT !.user_oid = user_oid]]

\* lines 147-182: jwt.decode, its exceptions turned into ValidationError,
\* the claims turned into a context, which is returned unless the role
\* fallback applies
DecodeStep(t) ==
    /\ calls[t].pc = "decode"
    /\ LET d == JwtDecode(calls[t].token, calls[t].result.key, clock, ClockSkew)
           payload == calls[t].token.payload
           ident == Identity(calls[t].token)
       IN calls' = [calls EXCEPT ![t] =
                       IF ~d.ok
                       THEN [@ EXCEPT !.pc = "returned",
                                      !.result = Raised("ValidationError",
                                                        ValidationMessage(d.exc))]
                       ELSE IF FallbackWanted(ident.ctx, payload)
                       THEN [EnterResolve(@, "validate",
                                          Str(OrDefault(payload.oid, payload.sub)))
                                EXCEPT !.result = ident, !.lookups = @ + 1]
                       ELSE [@ EXCEPT !.pc = "returned", !.result = ident]]
    /\ UNCHANGED <<rbacVars, graphVars, secVars, cache, clock, upstream>>

\* lines 182-191: the roles Graph gave replace the empty roles; what
\* resolve_roles_via_graph raises leaves validate_and_extract as it is
GraphStep(t) ==
    /\ calls[t].pc = "resolved"
    /\ calls[t].op = "validate"
    /\ LET r == calls[t].g.result
       IN calls' = [calls EXCEPT ![t] =
                       IF r.kind = "raise"
                       THEN [@ EXCEPT !.pc = "returned", !.result = Raised(r.exc, "")]
                       ELSE IF Len(r.roles) > 0
                       THEN [@ EXCEPT !.pc = "returned", !.result.ctx.roles = r.roles]
                       ELSE [@ EXCEPT !.pc = "returned"]]
    /\ UNCHANGED <<rbacVars, graphVars, secVars, cache, clock, upstream>>

(***************************************************************************)
(* The steps of resolve_roles_via_graph                                    *)
(***************************************************************************)
\* a caller enters resolve_roles_via_graph(user_oid, config)
CallResolveRoles(t, oids) ==
    /\ calls[t].pc = "idle"
    /\ \E user_oid \in oids :
           calls' = [calls EXCEPT ![t] = EnterResolve(IdleCall, "resolve", user_oid)]
    /\ UNCHANGED <<rbacVars, graphVars, secVars, cache, clock, upstream>>

\* lines 111-112: no secret or no oid returns []
ResolveEnter(t) ==
    /\ calls[t].pc = "resolve"
    /\ calls' = [calls EXCEPT ![t] =
                    IF ~entra.client_secret \/ calls[t].g.user_oid = ""
                    THEN [@ EXCEPT !.pc = "resolved", !.g.result = RolesReturned(<<>>)]
                    ELSE [@ EXCEPT !.pc = "app_token"]]
    /\ UNCHANGED <<rbacVars, graphVars, secVars, cache, clock, upstream>>

\* get_or_refresh answers with the cached app token (lines 57-59); the loop
\* starts at the memberOf url (lines 120-122)
AppTokenHit(t) ==
    /\ calls[t].pc = "app_token"
    /\ AppTokenCached(app_token, clock)
    /\ calls' = [calls EXCEPT ![t] =
                    [@ EXCEPT !.pc = "page", !.g.url = 1,
                              !.g.served = app_token.credential,
                              !.g.served_at = clock]]
    /\ UNCHANGED <<rbacVars, graphVars, secVars, cache, clock, upstream>>

\* the token values a token response states
ExpiresIn == {3600, 30}

\* _request_app_token answers (lines 60-63, 73-92)
AppTokenOk(t) ==
    /\ calls[t].pc = "app_token"
    /\ ~AppTokenCached(app_token, clock)
    /\ \E expires_in \in ExpiresIn :
           /\ app_token' = [token |-> TRUE,
                            expires_at |-> clock + ExpiresAfter(expires_in),
                            credential |-> Credential(clock, expires_in)]
           /\ calls' = [calls EXCEPT ![t] =
                           [@ EXCEPT !.pc = "page", !.g.url = 1, !.g.posts = @ + 1,
                                     !.g.served = Credential(clock, expires_in),
                                     !.g.served_at = clock]]
    /\ UNCHANGED <<rbacVars, secVars, entra, directory, cache, clock, upstream>>

CredentialFailures == {"ConnectionError", "Timeout", "HTTPError", "NoAccessToken"}

\* _request_app_token raises; except Exception returns [] (lines 114-118)
AppTokenFail(t) ==
    /\ calls[t].pc = "app_token"
    /\ ~AppTokenCached(app_token, clock)
    /\ \E failure \in CredentialFailures :
           calls' = [calls EXCEPT ![t] =
                        [@ EXCEPT !.pc = "resolved", !.g.posts = @ + 1,
                                  !.g.failure = failure,
                                  !.g.result = RolesReturned(<<>>)]]
    /\ UNCHANGED <<rbacVars, graphVars, secVars, cache, clock, upstream>>

\* one turn of the while loop with a 200 answer (lines 124-136)
PageOk(t) ==
    /\ calls[t].pc = "page"
    /\ LET g == calls[t].g
           roles == g.roles \o PageRoles(directory[g.url])
           url == NextLink(directory, g.url)
       IN calls' = [calls EXCEPT ![t] =
                       IF url = 0
                       THEN [@ EXCEPT !.pc = "resolved", !.g.url = url,
                                      !.g.roles = roles,
                                      !.g.asked = Append(@, g.url),
                                      !.g.result = RolesReturned(roles)]
                       ELSE [@ EXCEPT !.g.url = url, !.g.roles = roles,
                                      !.g.asked = Append(@, g.url)]]
    /\ UNCHANGED <<rbacVars, graphVars, secVars, cache, clock, upstream>>

\* "Status": a status other than 200 (lines 125-127); the others:
\* requests.get or resp.json() raises a RequestException (lines 137-138);
\* either way the roles collected so far are returned
QueryFailures == {"Status", "ConnectionError", "Timeout", "JSONDecodeError"}

PageFail(t) ==
    /\ calls[t].pc = "page"
    /\ \E failure \in QueryFailures :
           calls' = [calls EXCEPT ![t] =
                        [@ EXCEPT !.pc = "resolved", !.g.failure = failure,
                                  !.g.asked = Append(@, calls[t].g.url),
                                  !.g.result = RolesReturned(calls[t].g.roles)]]
    /\ UNCHANGED <<rbacVars, graphVars, secVars, cache, clock, upstream>>

\* a 200 answer whose JSON is not an object with a list of objects under
\* "value": body.get / entry.get raise AttributeError (or the for loop
\* TypeError), which except requests.RequestException does not catch
PageWrongShape(t) ==
    /\ calls[t].pc = "page"
    /\ calls' = [calls EXCEPT ![t] =
                    [@ EXCEPT !.pc = "resolved", !.g.failure = "WrongShape",
                              !.g.asked = Append(@, calls[t].g.url),
                              !.g.result = RolesRaised("AttributeError")]]
    /\ UNCHANGED <<rbacVars, graphVars, secVars, cache, clock, upstream>>

\* the direct caller of resolve_roles_via_graph takes the result
ReturnResolve(t) ==
    /\ calls[t].pc = "resolved"
    /\ calls[t].op = "resolve"
    /\ calls' = [calls EXCEPT ![t] = IdleCall]
    /\ UNCHANGED <<rbacVars, graphVars, secVars, cache, clock, upstream>>

ResolveSteps(t) ==
    \/ ResolveEnter(t)
    \/ AppTokenHit(t)
    \/ AppTokenOk(t)
    \/ AppTokenFail(t)
    \/ PageOk(t)
    \/ PageFail(t)
    \/ PageWrongShape(t)

\* memberOf pages: groups, directory roles, other types, entries without a
\* type or without a display name
G1 == Entry("#microsoft.graph.group", TextV("G1"))
G2 == Entry("#microsoft.graph.group", TextV("G2"))
R1 == Entry("#microsoft.graph.directoryRole", TextV("R1"))
U1 == Entry("#microsoft.graph.administrativeUnit", TextV("U1"))
Pages ==
    {<<>>, <<G1>>, <<G1, R1>>, <<U1>>, <<G1, U1, R1>>,
     <<Entry("#microsoft.graph.group", NoneV)>>,
     <<Entry("#microsoft.graph.group", TextV("")), G2>>,
     <<Entry("", TextV("X")), R1, G1>>}

MaxPages == 2
Listings == UNION {[1..n -> Pages] : n \in 1..MaxPages}

\* the caller of validate_and_extract takes the result
ReturnValidate(t) ==
    /\ calls[t].pc = "returned"
    /\ calls' = [calls EXCEPT ![t] = IdleCall]
    /\ UNCHANGED <<rbacVars, graphVars, secVars, cache, clock, upstream>>

\* a caller hands a decoded payload to _extract_claims
CallExtractClaims(t, payloads) ==
    /\ calls[t].pc = "idle"
    /\ \E payload \in payloads :
           LET token == TokenWithPayload(NoToken, payload)
           IN calls' = [calls EXCEPT ![t] =
                           [IdleCall EXCEPT !.pc = "returned", !.op = "extract",
                                            !.token = token,
                                            !.result = Identity(token)]]
    /\ UNCHANGED <<rbacVars, graphVars, secVars, cache, clock, upstream>>

\* payloads with each claim absent, null, empty, given, or of another type
Payloads ==
    {Payload(oid, sub, roles, department, scp, preferred_username) :
        oid \in {AbsentV, NoneV, TextV(""), TextV("o1"), IntV(0), IntV(7),
                 FloatV(1, 5), BoolV(TRUE)},
        sub \in {AbsentV, TextV("s1"), IntV(3)},
        roles \in {AbsentV, NoneV, EmptyList, ListV(<<TextV("admin")>>),
                   ListV(<<TextV("admin"), TextV("reader")>>),
                   ListV(<<IntV(1)>>), TextV("admin"), TextV(""), IntV(1)},
        department \in {AbsentV, NoneV, TextV(""), TextV("HR"), IntV(0), IntV(5)},
        scp \in {AbsentV, NoneV, StrV(<<>>), StrV(<<"r", " ", "w">>),
                 StrV(<<" ", "r", "\t", " ", "w", "x", "\n">>), StrV(<<" ", "\t">>),
                 EmptyList, ListV(<<TextV("read"), TextV("write")>>), IntV(1)},
        preferred_username \in {AbsentV, NoneV, TextV(""), TextV("u"), IntV(4)}}

(***************************************************************************)
(* SecurityConfig (security/config.py).  An optional flag of a route rule  *)
(* is NoneV (unset) or BoolV(b).  given_roles tells whether the document   *)
(* wrote required_roles for the rule; the loaded RouteRule holds [] both   *)
(* for an unset field and for an explicit empty list.                      *)
(***************************************************************************)
DefaultRule(auth_required, required_roles, filter_by_department, require_sensitive_permission) ==
    [auth_required |-> auth_required, required_roles |-> required_roles,
     filter_by_department |-> filter_by_department,
     require_sensitive_permission |-> require_sensitive_permission]

RouteRule(path, methods, auth_required, required_roles, given_roles, filter_by_department, require_sensitive_permission) ==
    [path |-> path, methods |-> methods, auth_required |-> auth_required,
     required_roles |-> required_roles, given_roles |-> given_roles,
     filter_by_department |-> filter_by_department,
     require_sensitive_permission |-> require_sensitive_permission]

EffectiveRule(auth_required, required_roles, filter_by_department, require_sensitive_permission) ==
    [auth_required |-> auth_required, required_roles |-> required_roles,
     filter_by_department |-> filter_by_department,
     require_sensitive_permission |-> require_sensitive_permission]

SecurityConfigModel(default, routes, permissions) ==
    [default |-> default, routes |-> routes, permissions |-> permissions]

\* RouteRule.normalized_methods
NormalizedMethods(rule) == NormalizeMethods(rule.methods)

\* config._path_template_to_regex: the substitution of rbac_engine
SecPathTemplateToRegex(path_template) == PathTemplateToRegex(path_template)

\* _effective without the inference of auth_required
EffectiveNoInference(rule, default) ==
    EffectiveRule(
        IF rule.auth_required = NoneV THEN default.auth_required
        ELSE rule.auth_required.b,
        Range(IF Len(rule.required_roles) > 0 THEN rule.required_roles
              ELSE default.required_roles),
        IF rule.filter_by_department = NoneV THEN default.filter_by_department
        ELSE rule.filter_by_department.b,
        IF rule.require_sensitive_permission = NoneV
        THEN default.require_sensitive_permission
        ELSE rule.require_sensitive_permission.b)

\* _effective
Effective(rule, default) ==
    LET inferred_auth_required ==
            \/ default.auth_required
            \/ Len(rule.required_roles) > 0
            \/ Truthy(rule.filter_by_department)
            \/ Truthy(rule.require_sensitive_permission)
    IN EffectiveRule(
           IF rule.auth_required = NoneV THEN inferred_auth_required
           ELSE rule.auth_required.b,
           Range(IF Len(rule.required_roles) > 0 THEN rule.required_roles
                 ELSE default.required_roles),
           IF rule.filter_by_department = NoneV THEN default.filter_by_department
           ELSE rule.filter_by_department.b,
           IF rule.require_sensitive_permission = NoneV
           THEN default.require_sensitive_permission
           ELSE rule.require_sensitive_permission.b)

\* SecurityConfig.__init__: the rules in declaration order with their
\* compiled templates; _exact_rules[path] is the rules with that path, in
\* declaration order
SecurityConfigInit(model) ==
    [kind |-> "config", model |-> model,
     compiled_rules |-> [i \in 1..Len(model.routes) |->
                            [template |-> model.routes[i].path,
                             regex |-> SecPathTemplateToRegex(model.routes[i].path),
                             rule |-> model.routes[i]]]]

ExactRules(config, path) ==
    SelectSeq(config.model.routes, LAMBDA r : r.path = path)

\* the loop over exact_candidates (lines 106-108): 0 when none has the method
RECURSIVE FirstExact(_, _, _)
FirstExact(candidates, i, method) ==
    IF i > Len(candidates) THEN 0
    ELSE IF method \in NormalizedMethods(candidates[i]) THEN i
    ELSE FirstExact(candidates, i + 1, method)

\* the loop over _compiled_rules (lines 111-115)
RECURSIVE FirstTemplate(_, _, _, _)
FirstTemplate(compiled, i, path, method) ==
    IF i > Len(compiled) THEN 0
    ELSE IF method \notin NormalizedMethods(compiled[i].rule)
    THEN FirstTemplate(compiled, i + 1, path, method)
    ELSE IF RegexMatch(compiled[i].regex, path) THEN i
    ELSE FirstTemplate(compiled, i + 1, path, method)

\* lines 118-123
DefaultEffective(default) ==
    EffectiveRule(default.auth_required, Range(default.required_roles),
                  default.filter_by_department, default.require_sensitive_permission)

\* match that walks the rules in declaration order only
MatchDeclarationOrder(config, path, method) ==
    LET default == config.model.default
        t == FirstTemplate(config.compiled_rules, 1, path, Upper(method))
    IN IF t > 0 THEN Effective(config.compiled_rules[t].rule, default)
       ELSE DefaultEffective(default)

\* SecurityConfig.match
Match(config, path, method) ==
    LET default == config.model.default
        exact_candidates == ExactRules(config, path)
        e == FirstExact(exact_candidates, 1, Upper(method))
        t == FirstTemplate(config.compiled_rules, 1, path, Upper(method))
    IN IF e > 0 THEN Effective(exact_candidates[e], default)
       ELSE IF t > 0 THEN Effective(config.compiled_rules[t].rule, default)
       ELSE DefaultEffective(default)

\* a template is compiled by each module and tried on a path:
\* _path_template_to_regex(template).match(path) of rbac_engine and of
\* security/config
TemplateMatchCall(templates, paths) ==
    /\ request = NoRequest
    /\ \E template \in templates, path \in paths :
           request' = [kind |-> "template", template |-> template, path |-> path,
                       rbac |-> RegexMatch(PathTemplateToRegex(template), path),
                       security |-> RegexMatch(SecPathTemplateToRegex(template), path)]
    /\ UNCHANGED <<rbacVars, tokenVars, graphVars, security_config>>

\* a caller asks config.match(path, method)
MatchCall(paths, methods) ==
    /\ security_config # NoSecurityConfig
    /\ \E path \in paths, method \in methods :
           request' = [kind |-> "match", path |-> path, method |-> method,
                       rule |-> Match(security_config, path, method)]
    /\ UNCHANGED <<rbacVars, tokenVars, graphVars, security_config>>

\* the role a rule of the list requires, by its position
RoleAt == <<"admin", "manager", "reader">>
NoPermissions == [p \in {} |-> {}]
PathDoc7 == <<"/", "d", "/", "7">>

\* rule lists of every order of exact and templated paths and method sets
MaxRules == 2
OrderedRoutes ==
    UNION {{[k \in 1..n |-> RouteRule(paths[k], methods[k], NoneV, <<RoleAt[k]>>,
                                       TRUE, NoneV, NoneV)] :
               paths \in [1..n -> {TplDocs, TplDoc, PathDoc7}],
               methods \in [1..n -> {<<"GET">>, <<"post">>, <<"get", "POST">>}]} :
           n \in 0..MaxRules}

\* one rule with every combination of set, unset and empty fields
FieldRoutes ==
    {<<RouteRule(TplDocs, <<"GET">>, auth_required, roles[1], roles[2],
                 filter_by_department, require_sensitive_permission)>> :
        auth_required \in {NoneV, BoolV(TRUE), BoolV(FALSE)},
        roles \in {<<<<>>, FALSE>>, <<<<>>, TRUE>>, <<<<"manager">>, TRUE>>},
        filter_by_department \in {NoneV, BoolV(TRUE), BoolV(FALSE)},
        require_sensitive_permission \in {NoneV, BoolV(TRUE), BoolV(FALSE)}}

DefaultRules ==
    {DefaultRule(auth_required, required_roles, filter_by_department,
                 require_sensitive_permission) :
        auth_required \in BOOLEAN, required_roles \in {<<>>, <<"admin">>},
        filter_by_department \in BOOLEAN, require_sensitive_permission \in BOOLEAN}

SecurityConfigs ==
    {SecurityConfigInit(SecurityConfigModel(default, routes, NoPermissions)) :
        default \in {DefaultRule(FALSE, <<>>, FALSE, FALSE),
                     DefaultRule(TRUE, <<"reader">>, FALSE, TRUE)},
        routes \in OrderedRoutes}
    \cup {SecurityConfigInit(SecurityConfigModel(default, routes, NoPermissions)) :
            default \in DefaultRules, routes \in FieldRoutes}

(***************************************************************************)
(* enforce_security (security/dependencies.py) with extract_user_id and    *)
(* load_user (security/auth.py).  A header value is a StrV of characters,  *)
(* NoneV when the request carries no Authorization header.                 *)
(* The outcome of a step is a value or an HTTPException with its status.   *)
(***************************************************************************)
\* AuthConfig.bearer_prefix
BearerPrefix == <<"B", "e", "a", "r", "e", "r">>

\* str.startswith
StartsWith(s, prefix) ==
    Len(s) >= Len(prefix) /\ SubSeq(s, 1, Len(prefix)) = prefix

DigitChars == {"0", "1", "2", "3", "4", "5", "6", "7", "8", "9"}

DigitValue(c) ==
    CASE c = "0" -> 0 [] c = "1" -> 1 [] c = "2" -> 2 [] c = "3" -> 3
      [] c = "4" -> 4 [] c = "5" -> 5 [] c = "6" -> 6 [] c = "7" -> 7
      [] c = "8" -> 8 [] c = "9" -> 9

RECURSIVE DigitsValue(_)
DigitsValue(s) ==
    IF Len(s) = 0 THEN 0
    ELSE 10 * DigitsValue(SubSeq(s, 1, Len(s) - 1)) + DigitValue(s[Len(s)])

\* int(token) of a stripped text: an optional sign and decimal digits,
\* anything else is a ValueError
IntOfText(token) ==
    LET signed == Len(token) > 0 /\ token[1] \in {"+", "-"}
        digits == IF signed THEN Tail(token) ELSE token
    IN IF Len(digits) > 0 /\ \A i \in 1..Len(digits) : digits[i] \in DigitChars
       THEN [ok |-> TRUE,
             value |-> IF signed /\ token[1] = "-" THEN 0 - DigitsValue(digits)
                       ELSE DigitsValue(digits)]
       ELSE [ok |-> FALSE, value |-> 0]

HttpException(status_code) == [kind |-> "HTTPException", status_code |-> status_code]
UserIdValue(n) == [kind |-> "user_id", n |-> n]

\* auth.extract_user_id
ExtractUserId(raw) ==
    LET prefix == BearerPrefix \o <<" ">>
        token == Strip(SubSeq(raw.s, Len(prefix) + 1, Len(raw.s)))
    IN IF raw = NoneV \/ raw = StrV(<<>>) THEN NoneV
       ELSE IF ~StartsWith(raw.s, prefix) THEN HttpException(400)
       ELSE IF token = <<>> THEN HttpException(400)
       ELSE IF ~IntOfText(token).ok THEN HttpException(400)
       ELSE UserIdValue(IntOfText(token).value)

\* a row of the users table with its role names
User(id, department_id, is_active, roles) ==
    [kind |-> "user", id |-> id, department_id |-> department_id,
     is_active |-> is_active, roles |-> roles]

\* the users table of the database the requests run against
UserTable ==
    {User(1, 10, TRUE, {"admin"}), User(2, 10, TRUE, {"reader", "manager"}),
     User(3, 20, FALSE, {"admin"}), User(4, 20, TRUE, {})}

\* auth.load_user
LoadUser(db, user_id) ==
    LET found == {u \in db : u.id = user_id}
    IN IF found = {} THEN HttpException(401)
       ELSE LET user == CHOOSE u \in found : TRUE
            IN IF ~user.is_active THEN HttpException(401) ELSE user

\* SecurityConfig.permission_roles
PermissionRoles(config, permission_name) ==
    IF permission_name \in DOMAIN config.model.permissions
    THEN config.model.permissions[permission_name]
    ELSE {}

\* every configured capability, whatever the user's roles
DerivePermissionsAllNames(user, config) == DOMAIN config.model.permissions

\* dependencies._derive_permissions
DerivePermissions(user, config) ==
    {permission_name \in DOMAIN config.model.permissions :
        user.roles \cap PermissionRoles(config, permission_name) # {}}

\* the metadata the decorators attach to a handler; NoneV when the request
\* scope has no endpoint
Endpoint(required_roles, filter_by_department, require_sensitive_permission) ==
    [kind |-> "endpoint", required_roles |-> required_roles,
     filter_by_department |-> filter_by_department,
     require_sensitive_permission |-> require_sensitive_permission]

\* decorators.require_roles applied to a handler
RequireRoles(fn, roles) ==
    [fn EXCEPT !.required_roles = fn.required_roles \cup roles]

DecoratorRoles(endpoint) ==
    IF endpoint = NoneV THEN {} ELSE endpoint.required_roles
DecoratorFilterDept(endpoint) ==
    IF endpoint = NoneV THEN FALSE ELSE endpoint.filter_by_department
DecoratorSensitive(endpoint) ==
    IF endpoint = NoneV THEN FALSE ELSE endpoint.require_sensitive_permission

\* line 51
AuthRequired(rule, endpoint) ==
    \/ rule.auth_required
    \/ DecoratorRoles(endpoint) # {}
    \/ DecoratorFilterDept(endpoint)
    \/ DecoratorSensitive(endpoint)

\* line 65
RequiredRoles(rule, endpoint) == rule.required_roles \cup DecoratorRoles(endpoint)

\* a role gate that asks for every required role
RoleGateNeedsAll(required_roles, user_roles) == required_roles \subseteq user_roles

\* line 66: the gate lets the user through
RoleGate(required_roles, user_roles) ==
    required_roles = {} \/ user_roles \cap required_roles # {}

AuthzContext(user, user_permissions, rule, endpoint) ==
    [kind |-> "authz", user_id |-> user.id, department_id |-> user.department_id,
     roles |-> user.roles, permissions |-> user_permissions,
     filter_by_department |->
         rule.filter_by_department \/ DecoratorFilterDept(endpoint),
     require_sensitive_permission |->
         rule.require_sensitive_permission \/ DecoratorSensitive(endpoint),
     can_view_cross_department |-> "view_cross_department" \in user_permissions,
     can_view_sensitive_data |-> "view_sensitive_data" \in user_permissions]

\* what a run of enforce_security leaves behind: how it ended (0: returned,
\* otherwise the status of the HTTPException), request.state.user,
\* request.state.authz and the steps it took, in order
Enforced(path, method, header, endpoint, status_code, user, authz, steps) ==
    [kind |-> "enforce", path |-> path, method |-> method, header |-> header,
     endpoint |-> endpoint, status_code |-> status_code, user |-> user,
     authz |-> authz, steps |-> steps]

\* dependencies.enforce_security: the dependency runs once for a request,
\* whose state is empty when it starts
EnforceSecurity(paths, methods, headers, endpoints, db) ==
    /\ security_config # NoSecurityConfig
    /\ request = NoRequest
    /\ \E path \in paths, method \in methods, header \in headers,
          endpoint \in endpoints :
        LET config == security_config
            rule == Match(config, path, Upper(method))
            user_id == ExtractUserId(header)
            user == LoadUser(db, user_id.n)
            user_permissions == DerivePermissions(user, config)
            required_roles == RequiredRoles(rule, endpoint)
            done(status_code, u, authz, steps) ==
                Enforced(path, method, header, endpoint, status_code, u, authz,
                         steps)
        IN request' =
            IF ~AuthRequired(rule, endpoint)
            THEN done(0, NoneV, NoneV, <<"match">>)
            ELSE IF user_id = NoneV
            THEN done(401, NoneV, NoneV, <<"match", "extract_user_id">>)
            ELSE IF user_id.kind = "HTTPException"
            THEN done(user_id.status_code, NoneV, NoneV,
                      <<"match", "extract_user_id">>)
            ELSE IF user.kind = "HTTPException"
            THEN done(user.status_code, NoneV, NoneV,
                      <<"match", "extract_user_id", "load_user">>)
            ELSE IF ~RoleGate(required_roles, user.roles)
            THEN done(403, user, NoneV,
                      <<"match", "extract_user_id", "load_user", "role_gate">>)
            ELSE done(0, user, AuthzContext(user, user_permissions, rule, endpoint),
                      <<"match", "extract_user_id", "load_user", "role_gate",
                        "authz">>)
    /\ UNCHANGED <<rbacVars, tokenVars, graphVars, security_config>>

\* Authorization header values: none, empty, other schemes, a bare prefix,
\* blank and non-integer tokens, and user ids present and absent in the table
Bearer(token) == StrV(BearerPrefix \o <<" ">> \o token)
RequestHeaders ==
    {NoneV, StrV(<<>>), StrV(<<"T", "o", "k", "e", "n", " ", "1">>),
     StrV(BearerPrefix), StrV(<<"b", "e", "a", "r", "e", "r", " ", "1">>),
     Bearer(<<>>), Bearer(<<" ", " ">>), Bearer(<<"a", "b", "c">>),
     Bearer(<<"1", "x">>), Bearer(<<"1">>), Bearer(<<" ", "2", " ">>),
     Bearer(<<"3">>), Bearer(<<"4">>), Bearer(<<"9">>), Bearer(<<"-", "1">>),
     Bearer(<<"0", "1">>)}

Handler == Endpoint({}, FALSE, FALSE)
Endpoints ==
    {NoneV, Handler, RequireRoles(Handler, {"manager"}),
     RequireRoles(RequireRoles(Handler, {"admin"}), {"auditor"}),
     Endpoint({}, TRUE, FALSE), Endpoint({}, FALSE, TRUE)}

Permissions ==
    [p \in {"view_cross_department", "view_sensitive_data", "export"} |->
        CASE p = "view_cross_department" -> {"admin"}
          [] p = "view_sensitive_data" -> {"admin", "manager"}
          [] p = "export" -> {}]

\* configurations with public and protected defaults and routes
EnforceConfigs ==
    {SecurityConfigInit(SecurityConfigModel(default, routes, Permissions)) :
        default \in {DefaultRule(FALSE, <<>>, FALSE, FALSE),
                     DefaultRule(TRUE, <<>>, FALSE, FALSE),
                     DefaultRule(TRUE, <<"reader">>, TRUE, FALSE)},
        routes \in {<<>>,
                    <<RouteRule(TplDocs, <<"GET">>, BoolV(FALSE), <<"admin">>,
                                TRUE, NoneV, NoneV)>>,
                    <<RouteRule(TplDocs, <<"GET">>, NoneV, <<"admin">>, TRUE,
                                NoneV, NoneV),
                      RouteRule(TplDoc, <<"get", "POST">>, BoolV(FALSE), <<>>,
                                FALSE, NoneV, NoneV)>>,
                    <<RouteRule(TplDoc, <<"GET">>, NoneV, <<>>, FALSE,
                                BoolV(TRUE), NoneV),
                      RouteRule(TplStatus, <<"GET">>, BoolV(TRUE), <<>>, FALSE,
                                NoneV, BoolV(TRUE))>>}}

(***************************************************************************)
(* Data scoping (db/session.py, db/filters.py).  A statement is an ORM     *)
(* select (of an entity, of an alias of it, of a join, or the load of a    *)
(* relationship), a textual select, or a write.  The hook rewrites the     *)
(* statement; executing it is the ORM's work: a loader criterion narrows   *)
(* every occurrence of its entity in an ORM select and nothing else.       *)
(***************************************************************************)
\* the entity types the hook names
EnrolledEntities == {"Employee", "PerformanceReview"}

\* a stored row; employee is the owner of a PerformanceReview, 0 otherwise
Row(entity, id, department_id, is_sensitive, employee) ==
    [entity |-> entity, id |-> id, department_id |-> department_id,
     is_sensitive |-> is_sensitive, employee |-> employee]

\* with_loader_criteria(entity, criterion, include_aliases=...)
LoaderCriteria(entity, column, value, include_aliases) ==
    [entity |-> entity, column |-> column, value |-> value,
     include_aliases |-> include_aliases]

Statement(kind, form, entities, id, options) ==
    [kind |-> kind, form |-> form, entities |-> entities, id |-> id,
     options |-> options]

\* get_db: the session carries the request's AuthzContext when there is one
GetDb(state_authz) ==
    IF state_authz # NoneV THEN [authz |-> state_authz] ELSE [authz |-> NoneV]

\* ORMExecuteState.is_select: true of a select construct, not of text()
IsSelect(statement) == statement.kind = "select"

\* the criteria of lines 29-40 for a context
DepartmentCriteria(authz) ==
    IF authz.filter_by_department /\ ~authz.can_view_cross_department
    THEN {LoaderCriteria(e, "department_id", IntV(authz.department_id), TRUE) :
             e \in EnrolledEntities}
    ELSE {}

SensitiveCriteria(authz) ==
    IF authz.require_sensitive_permission /\ ~authz.can_view_sensitive_data
    THEN {LoaderCriteria(e, "is_sensitive", BoolV(FALSE), TRUE) : e \in EnrolledEntities}
    ELSE {}

\* a hook that does not look at the kind of the statement
ApplyFiltersToEveryStatement(statement, info) ==
    IF info.authz = NoneV THEN statement
    ELSE [statement EXCEPT !.options =
             @ \cup DepartmentCriteria(info.authz) \cup SensitiveCriteria(info.authz)]

\* filters._apply_authorization_filters: the statement that is executed
ApplyAuthorizationFilters(statement, info) ==
    IF ~IsSelect(statement) THEN statement
    ELSE IF info.authz = NoneV THEN statement
    ELSE [statement EXCEPT !.options =
             @ \cup DepartmentCriteria(info.authz) \cup SensitiveCriteria(info.authz)]

\* a row passes a criterion that is not about its entity, or not about
\* aliases when the row is read through one
Passes(row, form, criterion) ==
    \/ criterion.entity # row.entity
    \/ form = "aliased" /\ ~criterion.include_aliases
    \/ criterion.column = "department_id" /\ IntV(row.department_id) = criterion.value
    \/ criterion.column = "is_sensitive" /\ BoolV(row.is_sensitive) = criterion.value

PassesAll(row, statement) ==
    \A criterion \in statement.options : Passes(row, statement.form, criterion)

\* the result of a read: a set of result tuples of stored rows
ResultOf(statement, stored) ==
    LET of(e) == {r \in stored : r.entity = e /\ (statement.id = 0 \/ r.id = statement.id)}
    IN CASE statement.kind = "text" ->
                {<<r>> : r \in UNION {of(e) : e \in statement.entities}}
         [] statement.kind = "select" /\ statement.form = "joined" ->
                {t \in {x \in of("Employee") : PassesAll(x, statement)}
                        \X {x \in stored : x.entity = "PerformanceReview"
                                            /\ PassesAll(x, statement)} :
                    t[2].employee = t[1].id}
         [] statement.kind = "select" /\ statement.form = "relationship" ->
                {<<r>> : r \in {x \in stored : /\ x.entity = "PerformanceReview"
                                               /\ x.employee = statement.id
                                               /\ PassesAll(x, statement)}}
         [] statement.kind = "select" ->
                {<<r>> : r \in {x \in UNION {of(e) : e \in statement.entities} :
                                   PassesAll(x, statement)}}
         [] OTHER -> {}

\* the stored rows after a statement: a write acts on the row it names
StoredAfter(statement, stored) ==
    CASE statement.kind = "insert" ->
            stored \cup {Row(e, statement.id, 10, TRUE, 0) : e \in statement.entities}
      [] statement.kind = "update" ->
            {IF r.entity \in statement.entities /\ r.id = statement.id
             THEN [r EXCEPT !.is_sensitive = ~r.is_sensitive] ELSE r : r \in stored}
      [] statement.kind = "delete" ->
            {r \in stored : ~(r.entity \in statement.entities /\ r.id = statement.id)}
      [] OTHER -> stored

\* what Session.execute leaves behind
Executed(info, statement, executed, stored, stored_after, result, info_after) ==
    [kind |-> "execute", info |-> info, statement |-> statement,
     executed |-> executed, stored |-> stored, stored_after |-> stored_after,
     result |-> result, info_after |-> info_after]

\* Session.execute on a session of get_db: the hook runs, then the statement
SessionExecute(contexts, statements, stored) ==
    /\ request = NoRequest
    /\ \E state_authz \in contexts, statement \in statements :
        LET info == GetDb(state_authz)
            executed == ApplyAuthorizationFilters(statement, info)
        IN request' = Executed(info, statement, executed, stored,
                               StoredAfter(executed, stored),
                               ResultOf(executed, stored), info)
    /\ UNCHANGED <<rbacVars, tokenVars, graphVars, security_config>>

\* employees and reviews of two departments, sensitive and not, and a
\* department table that is not enrolled
StoredRows ==
    {Row("Employee", 1, 10, FALSE, 0), Row("Employee", 2, 10, TRUE, 0),
     Row("Employee", 3, 20, FALSE, 0), Row("Employee", 4, 20, TRUE, 0),
     Row("PerformanceReview", 1, 10, TRUE, 1),
     Row("PerformanceReview", 2, 10, FALSE, 2),
     Row("PerformanceReview", 3, 20, FALSE, 3),
     Row("PerformanceReview", 4, 10, FALSE, 3),
     Row("Department", 10, 10, FALSE, 0), Row("Department", 20, 20, FALSE, 0)}

\* the contexts enforce_security can attach, and none
ScopeContexts ==
    {NoneV} \cup
    {AuthzContext(user, user_permissions,
                  EffectiveRule(TRUE, {}, flags[1], flags[2]), NoneV) :
        user \in {u \in UserTable : u.is_active},
        user_permissions \in SUBSET {"view_cross_department", "view_sensitive_data"},
        flags \in BOOLEAN \X BOOLEAN}

Statements ==
    {Statement("select", form, {e}, id, {}) :
        form \in {"entity", "aliased"},
        e \in EnrolledEntities \cup {"Department"}, id \in {0, 2}}
    \cup {Statement("select", "joined", {"Employee", "PerformanceReview"}, id, {}) :
            id \in {0, 3}}
    \cup {Statement("select", "relationship", {"PerformanceReview"}, id, {}) :
            id \in {1, 3}}
    \cup {Statement("text", "text", {e}, 0, {}) :
            e \in EnrolledEntities \cup {"Department"}}
    \cup {Statement(kind, "entity", {"Employee"}, id, {}) :
            kind \in {"insert", "update", "delete"}, id \in {2, 5}}

(***************************************************************************)
(* Specifications                                                          *)
(***************************************************************************)
\* process start: no policy loaded, an empty key cache, no call in progress
Init ==
    /\ policy = NoPolicy
    /\ build = NoBuild
    /\ decision = NoDecision
    /\ cache = JWKSCacheInit(MaxTtl)
    /\ clock = 0
    /\ upstream = Kids
    /\ calls = [t \in Threads |-> IdleCall]
    /\ entra = EntraConfig(FALSE, FALSE)
    /\ app_token = AppTokenCacheInit
    /\ directory = <<>>
    /\ security_config = NoSecurityConfig
    /\ request = NoRequest

\* the same with any configured ttl and any published key set
InitJwks ==
    /\ policy = NoPolicy
    /\ build = NoBuild
    /\ decision = NoDecision
    /\ cache \in {JWKSCacheInit(ttl) : ttl \in 0..MaxTtl}
    /\ clock = 0
    /\ upstream \in SUBSET Kids
    /\ calls = [t \in Threads |-> IdleCall]
    /\ entra = EntraConfig(FALSE, FALSE)
    /\ app_token = AppTokenCacheInit
    /\ directory = <<>>
    /\ security_config = NoSecurityConfig
    /\ request = NoRequest

\* the same with any published key set
InitValidate ==
    /\ policy = NoPolicy
    /\ build = NoBuild
    /\ decision = NoDecision
    /\ cache = JWKSCacheInit(MaxTtl)
    /\ clock = 0
    /\ upstream \in SUBSET Kids
    /\ calls = [t \in Threads |-> IdleCall]
    /\ entra = EntraConfig(FALSE, FALSE)
    /\ app_token = AppTokenCacheInit
    /\ directory = <<>>
    /\ security_config = NoSecurityConfig
    /\ request = NoRequest

\* the decision API on a started engine
Next ==
    \/ FromYamlCall(QueryDocs)
    \/ IsAllowedCall(CallerRoleSets, RequestMethods, RequestPaths)
    \/ DecisionConsumed

Spec == Init /\ [][Next]_vars

\* engine startup over every role graph
NextRoles == FromYamlCall(GraphDocs)

SpecRoles == Init /\ [][NextRoles]_vars

\* the loader on its own over documents of every shape
NextLoad == LoadRbacConfigCall(ShapeDocs)

SpecLoad == Init /\ [][NextLoad]_vars

\* _extract_claims on its own over payloads of every shape
NextClaims ==
    \E t \in Threads : CallExtractClaims(t, Payloads) \/ ReturnValidate(t)

SpecClaims == Init /\ [][NextClaims]_vars

\* resolve_roles_via_graph on its own: any listing, any configuration
InitGraph ==
    /\ policy = NoPolicy
    /\ build = NoBuild
    /\ decision = NoDecision
    /\ cache = JWKSCacheInit(MaxTtl)
    /\ clock = 0
    /\ upstream = Kids
    /\ calls = [t \in Threads |-> IdleCall]
    /\ entra \in {EntraConfig(TRUE, client_secret) : client_secret \in BOOLEAN}
    /\ app_token = AppTokenCacheInit
    /\ directory \in Listings
    /\ security_config = NoSecurityConfig
    /\ request = NoRequest

NextGraph ==
    \E t \in Threads :
        CallResolveRoles(t, {"", "o1"}) \/ ResolveSteps(t) \/ ReturnResolve(t)

SpecGraph == InitGraph /\ [][NextGraph]_vars

\* resolve_roles_via_graph called again and again while seconds pass
MaxSeconds == 70
InitAppToken ==
    /\ policy = NoPolicy
    /\ build = NoBuild
    /\ decision = NoDecision
    /\ cache = JWKSCacheInit(MaxTtl)
    /\ clock = 0
    /\ upstream = Kids
    /\ calls = [t \in Threads |-> IdleCall]
    /\ entra = EntraConfig(TRUE, TRUE)
    /\ app_token = AppTokenCacheInit
    /\ directory \in {<<<<G1>>>>, <<<<G1, R1>>, <<G2>>>>}
    /\ security_config = NoSecurityConfig
    /\ request = NoRequest

NextAppToken ==
    \/ Elapse({20, 25}, MaxSeconds)
    \/ \E t \in Threads :
           CallResolveRoles(t, {"o1"}) \/ ResolveSteps(t) \/ ReturnResolve(t)

SpecAppToken == InitAppToken /\ [][NextAppToken]_vars

\* SecurityConfig.match on a loaded configuration
InitMatch ==
    /\ policy = NoPolicy
    /\ build = NoBuild
    /\ decision = NoDecision
    /\ cache = JWKSCacheInit(MaxTtl)
    /\ clock = 0
    /\ upstream = Kids
    /\ calls = [t \in Threads |-> IdleCall]
    /\ entra = EntraConfig(FALSE, FALSE)
    /\ app_token = AppTokenCacheInit
    /\ directory = <<>>
    /\ security_config \in SecurityConfigs
    /\ request = NoRequest

NextMatch == MatchCall(RequestPaths, RequestMethods)

SpecMatch == InitMatch /\ [][NextMatch]_vars

\* every short template over a small alphabet against every short path
MaxTemplateLen == 4
MaxPathLen == 3
Strings(alphabet, n) == UNION {[1..k -> alphabet] : k \in 0..n}
InitTemplate ==
    /\ policy = NoPolicy
    /\ build = NoBuild
    /\ decision = NoDecision
    /\ cache = JWKSCacheInit(MaxTtl)
    /\ clock = 0
    /\ upstream = Kids
    /\ calls = [t \in Threads |-> IdleCall]
    /\ entra = EntraConfig(FALSE, FALSE)
    /\ app_token = AppTokenCacheInit
    /\ directory = <<>>
    /\ security_config = NoSecurityConfig
    /\ request = NoRequest

NextTemplate ==
    TemplateMatchCall(
        Strings({"/", "d", ".", "{", "}"}, MaxTemplateLen)
            \cup {TplDocs, TplDoc, TplStatus, <<"/", "{", "i", "}", "/", "{", "j", "}">>},
        Strings({"/", "d", "x", "\n"}, MaxPathLen) \cup RequestPaths)

SpecTemplate == InitTemplate /\ [][NextTemplate]_vars

\* enforce_security on the requests of a loaded configuration
InitEnforce ==
    /\ policy = NoPolicy
    /\ build = NoBuild
    /\ decision = NoDecision
    /\ cache = JWKSCacheInit(MaxTtl)
    /\ clock = 0
    /\ upstream = Kids
    /\ calls = [t \in Threads |-> IdleCall]
    /\ entra = EntraConfig(FALSE, FALSE)
    /\ app_token = AppTokenCacheInit
    /\ directory = <<>>
    /\ security_config \in EnforceConfigs
    /\ request = NoRequest

NextEnforce ==
    EnforceSecurity(RequestPaths, RequestMethods, RequestHeaders, Endpoints,
                    UserTable)

SpecEnforce == InitEnforce /\ [][NextEnforce]_vars

\* statements executed on the sessions of requests
InitScope ==
    /\ policy = NoPolicy
    /\ build = NoBuild
    /\ decision = NoDecision
    /\ cache = JWKSCacheInit(MaxTtl)
    /\ clock = 0
    /\ upstream = Kids
    /\ calls = [t \in Threads |-> IdleCall]
    /\ entra = EntraConfig(FALSE, FALSE)
    /\ app_token = AppTokenCacheInit
    /\ directory = <<>>
    /\ security_config = NoSecurityConfig
    /\ request = NoRequest

NextScope == SessionExecute(ScopeContexts, Statements, StoredRows)

SpecScope == InitScope /\ [][NextScope]_vars

\* the steps of get_signing_key, whoever called it
KeySteps(t) ==
    \/ EnsureFresh(t)
    \/ FetchOk(t)
    \/ FetchFail(t)
    \/ StoreData(t)
    \/ StoreTime(t)
    \/ FindFirst(t)
    \/ FindAgain(t)

\* callers of JWKSCache.get_signing_key
NextJwks ==
    \/ Tick
    \/ Rotate
    \/ \E t \in Threads : CallGetSigningKey(t) \/ KeySteps(t) \/ ReturnKey(t)

SpecJwks == InitJwks /\ [][NextJwks]_vars

\* two request threads call get_signing_key on the validator's one cache
Workers == {"t1", "t2"}
InitRace ==
    /\ policy = NoPolicy
    /\ build = NoBuild
    /\ decision = NoDecision
    /\ cache = JWKSCacheInit(1)
    /\ clock = 0
    /\ upstream = {"k1"}
    /\ calls = [t \in Workers |-> IdleCall]
    /\ entra = EntraConfig(FALSE, FALSE)
    /\ app_token = AppTokenCacheInit
    /\ directory = <<>>
    /\ security_config = NoSecurityConfig
    /\ request = NoRequest

NextRace ==
    \/ Tick
    \/ \E t \in Workers : CallGetSigningKey(t) \/ KeySteps(t) \/ ReturnKey(t)

SpecRace == InitRace /\ [][NextRace]_vars

\* calls one after another on one cache: t2 calls and returns any number of
\* times, then t1 makes the call under study, then t2 makes one later call
InitOutage ==
    /\ policy = NoPolicy
    /\ build = NoBuild
    /\ decision = NoDecision
    /\ cache \in {JWKSCacheInit(ttl) : ttl \in 0..MaxTtl}
    /\ clock = 0
    /\ upstream \in SUBSET Kids
    /\ calls = [t \in Workers |-> IdleCall]
    /\ entra = EntraConfig(FALSE, FALSE)
    /\ app_token = AppTokenCacheInit
    /\ directory = <<>>
    /\ security_config = NoSecurityConfig
    /\ request = NoRequest

NextOutage ==
    \/ Tick
    \/ /\ calls["t1"].pc = "idle"
       /\ CallGetSigningKey("t2") \/ KeySteps("t2") \/ ReturnKey("t2")
    \/ /\ calls["t2"].pc = "idle"
       /\ CallGetSigningKey("t1") \/ KeySteps("t1")
    \/ /\ calls["t1"].pc = "key_done"
       /\ CallGetSigningKey("t2") \/ KeySteps("t2")

SpecOutage == InitOutage /\ [][NextOutage]_vars

\* callers of EntraTokenValidator.validate_and_extract
NextValidate ==
    \/ Tick
    \/ Rotate
    \/ \E t \in Threads :
           \/ CallValidate(t)
           \/ KidStep(t)
           \/ KeySteps(t)
           \/ KeyStep(t)
           \/ DecodeStep(t)
           \/ ReturnValidate(t)

SpecValidate == InitValidate /\ [][NextValidate]_vars

\* one validation after another through the module-level function; the
\* results stay with their callers
InitModule ==
    /\ policy = NoPolicy
    /\ build = NoBuild
    /\ decision = NoDecision
    /\ cache = JWKSCacheInit(MaxTtl)
    /\ clock = 0
    /\ upstream \in {{"k1"}, Kids}
    /\ calls = [t \in Workers |-> IdleCall]
    /\ entra = EntraConfig(FALSE, FALSE)
    /\ app_token = AppTokenCacheInit
    /\ directory = <<>>
    /\ security_config = NoSecurityConfig
    /\ request = NoRequest

NextModule ==
    \/ Tick
    \/ \E t \in Workers :
           \/ CallModuleValidate(t, {Token(k, k, {}, {}, TRUE, TRUE) : k \in Kids})
           \/ KidStep(t)
           \/ KeySteps(t)
           \/ KeyStep(t)
           \/ DecodeStep(t)

SpecModule == InitModule /\ [][NextModule]_vars

\* tokens that pass every check, with and without roles, oid and sub, and
\* tokens without roles that fail one check
FallbackTokens ==
    {TokenWithPayload(Token("k1", "k1", {}, {}, TRUE, TRUE),
                      Payload(oid, sub, roles, department, AbsentV, AbsentV)) :
        oid \in {AbsentV, TextV(""), TextV("o1")},
        sub \in {AbsentV, TextV("s1")},
        roles \in {AbsentV, EmptyList, ListV(<<TextV("admin")>>), TextV("admin")},
        department \in {TextV("HR")}}
    \cup {TokenWithPayload(token, Payload(TextV("o1"), TextV("s1"), AbsentV,
                                          AbsentV, AbsentV, AbsentV)) :
            token \in {Token(NoKid, "k1", {}, {}, TRUE, TRUE),
                       Token("k1", "forged", {}, {}, TRUE, TRUE),
                       Token("k1", "k1", {0}, {}, TRUE, TRUE),
                       Token("k1", "k1", {}, {3}, TRUE, TRUE),
                       Token("k1", "k1", {}, {}, FALSE, TRUE),
                       Token("k1", "k1", {}, {}, TRUE, FALSE)}}

FallbackListings == {<<<<>>>>, <<<<G1, R1>>>>, <<<<U1>>, <<G1>>>>}

\* a validator with any fallback configuration
InitFallback ==
    /\ policy = NoPolicy
    /\ build = NoBuild
    /\ decision = NoDecision
    /\ cache = JWKSCacheInit(MaxTtl)
    /\ clock = 0
    /\ upstream \in {Kids, {"k2"}}
    /\ calls = [t \in Threads |-> IdleCall]
    /\ entra \in {EntraConfig(graph_enabled, client_secret) :
                     graph_enabled \in BOOLEAN, client_secret \in BOOLEAN}
    /\ app_token = AppTokenCacheInit
    /\ directory \in FallbackListings
    /\ security_config = NoSecurityConfig
    /\ request = NoRequest

NextFallback ==
    \/ Tick
    \/ \E t \in Threads :
           \/ CallValidateWith(t, FallbackTokens)
           \/ KidStep(t)
           \/ KeySteps(t)
           \/ KeyStep(t)
           \/ DecodeStep(t)
           \/ ResolveSteps(t)
           \/ GraphStep(t)
           \/ ReturnValidate(t)

SpecFallback == InitFallback /\ [][NextFallback]_vars

(***************************************************************************)
(* Properties of the decision API (Spec)                                   *)
(***************************************************************************)
\* a rule of the loaded config matches (method, path)
RuleMatches(rule, method, path) ==
    /\ Upper(method) \in rule.methods
    /\ RegexMatch(PathTemplateToRegex(rule.path_template), path)

\* the permissions of the loaded config with at least one matching rule
MatchingPermissions(config, method, path) ==
    {p \in DOMAIN config.permissions :
        \E i \in 1..Len(config.permissions[p].rules) :
            RuleMatches(config.permissions[p].rules[i], method, path)}

\* the permissions the supplied roles hold through the effective map
HeldPermissions(engine, roles) ==
    {p \in PermNames :
        \E r \in roles : /\ r \in DOMAIN engine.effective_permissions
                         /\ p \in engine.effective_permissions[r]}

\* C1: is_allowed returns true for every request is_public accepts, whatever
\* role set is supplied, the empty set and unknown role names included.
C1_PublicAlwaysAllowed ==
    (decision.asked /\ IsPublic(build.engine, decision.method, decision.path))
        => decision.allowed

\* C1 witness: a public request with no permission rule of its own is allowed
\* to a caller whose only role is unknown.
C1_Witness ==
    /\ decision.asked
    /\ IsPublic(build.engine, decision.method, decision.path)
    /\ decision.roles = {"unknown"}
    /\ MatchingPermissions(build.engine.config, decision.method, decision.path) = {}
    /\ decision.allowed

\* C2: a request that is not public and that no permission rule matches is
\* denied, whatever roles are supplied.
C2_NoRuleDenied ==
    (/\ decision.asked
     /\ ~IsPublic(build.engine, decision.method, decision.path)
     /\ MatchingPermissions(build.engine.config, decision.method, decision.path) = {})
        => ~decision.allowed

\* C2 witness: such a request is denied to a caller holding permissions.
C2_Witness ==
    /\ decision.asked
    /\ ~IsPublic(build.engine, decision.method, decision.path)
    /\ MatchingPermissions(build.engine.config, decision.method, decision.path) = {}
    /\ Cardinality(HeldPermissions(build.engine, decision.roles)) >= 2
    /\ ~decision.allowed

\* C3: for a non-public request, is_allowed returns true exactly when some
\* permission with a matching rule is held by one of the supplied roles;
\* unknown role names contribute nothing.
C3_AllowedIffIntersect ==
    (decision.asked /\ ~IsPublic(build.engine, decision.method, decision.path))
        => (decision.allowed <=>
               MatchingPermissions(build.engine.config, decision.method, decision.path)
               \cap HeldPermissions(build.engine, decision.roles) # {})

\* C3 witness: two permissions match, the caller holds one of them and also
\* names an unknown role, and the request is allowed.
C3_Witness ==
    /\ decision.asked
    /\ ~IsPublic(build.engine, decision.method, decision.path)
    /\ "unknown" \in decision.roles
    /\ Cardinality(MatchingPermissions(build.engine.config,
                                       decision.method, decision.path)) = 2
    /\ Cardinality(MatchingPermissions(build.engine.config,
                                       decision.method, decision.path)
                   \cap HeldPermissions(build.engine, decision.roles)) = 1
    /\ decision.allowed

(***************************************************************************)
(* Properties of inheritance resolution (SpecRoles)                        *)
(***************************************************************************)
\* the role graph as the policy document states it
DocParent(raw, r) == ParseExtends(raw.roles.val[r].extends)
DocDirect(raw, r) == Range(raw.roles.val[r].permissions.items)

\* r and its ancestors, following at most n parent links
RECURSIVE UpTo(_, _, _)
UpTo(raw, r, n) ==
    IF n = 0 \/ DocParent(raw, r) = NoExtends THEN {r}
    ELSE {r} \cup UpTo(raw, DocParent(raw, r), n - 1)

Lineage(raw, r) == UpTo(raw, r, Len(raw.roles.keys))

\* r is reached again by following parent links from r
OnCycle(raw, r) ==
    /\ DocParent(raw, r) # NoExtends
    /\ r \in Lineage(raw, DocParent(raw, r))

HasCycle(raw) == \E r \in Range(raw.roles.keys) : \E a \in Lineage(raw, r) : OnCycle(raw, a)

\* C4: for an acyclic role graph the effective map has every role of the
\* config and gives each role its direct permissions united with those of all
\* its ancestors, whatever the order of the role keys.
C4_EffectiveIsClosure ==
    (build.status # "none" /\ ~HasCycle(policy))
        => /\ build.status = "ready"
           /\ DOMAIN build.engine.effective_permissions = Range(policy.roles.keys)
           /\ \A r \in Range(policy.roles.keys) :
                  /\ build.engine.effective_permissions[r] =
                         UNION {DocDirect(policy, a) : a \in Lineage(policy, r)}
                  /\ build.engine.effective_permissions[r] =
                         DocDirect(policy, r) \cup
                         (IF DocParent(policy, r) = NoExtends THEN {}
                          ELSE build.engine.effective_permissions[DocParent(policy, r)])

\* C4 witness: a three-role chain whose leaf is visited first and whose leaf
\* gains permissions from both ancestors.
C4_Witness ==
    /\ build.status = "ready"
    /\ \E r \in Range(policy.roles.keys) :
           /\ policy.roles.keys[1] = r
           /\ Cardinality(Lineage(policy, r)) = 3
           /\ DocDirect(policy, r) = {}
           /\ Cardinality(build.engine.effective_permissions[r]) = 3

\* C5: for a role graph with an inheritance cycle the build ends in the
\* cycle error, the error names a role on the cycle, and no engine exists.
C5_CycleRejected ==
    (build.status # "none" /\ HasCycle(policy))
        => /\ build.status = "error"
           /\ build.error = "cycle"
           /\ OnCycle(policy, build.who)

\* C5 witness: a two-role cycle entered from a role that is not on it.
C5_Witness ==
    /\ build.status = "error"
    /\ build.error = "cycle"
    /\ ~OnCycle(policy, policy.roles.keys[1])
    /\ DocParent(policy, build.who) # build.who
    /\ OnCycle(policy, build.who)

(***************************************************************************)
(* Properties of the loader (SpecLoad)                                     *)
(***************************************************************************)
\* a section that is a mapping (or is left out)
SectionIsMapping(v) == v.kind \in {"none", "map"}

\* a raw rule with a path that is a non-blank string and a non-empty method list
RuleEntryComplete(rule) ==
    /\ rule.kind = "map"
    /\ rule.path.kind = "str"
    /\ \E i \in 1..Len(rule.path.s) : rule.path.s[i] # " "
    /\ rule.methods.kind = "list"
    /\ Len(rule.methods.items) > 0

\* the raw rules of a document: of its permissions and of its public list
DocRules(raw) ==
    (IF raw.permissions.kind = "map"
     THEN UNION {IF raw.permissions.val[p].kind = "map"
                    /\ raw.permissions.val[p].rules.kind = "list"
                 THEN Range(raw.permissions.val[p].rules.items)
                 ELSE {} : p \in Range(raw.permissions.keys)}
     ELSE {})
    \cup (IF raw.public.kind = "list" THEN Range(raw.public.items) ELSE {})

DocRoleKeys(raw) == IF raw.roles.kind = "map" THEN Range(raw.roles.keys) ELSE {}
DocPermKeys(raw) == IF raw.permissions.kind = "map" THEN Range(raw.permissions.keys) ELSE {}

\* the conditions under which the loader may return a config
DocWellFormed(raw) ==
    /\ SectionIsMapping(raw.roles)
    /\ SectionIsMapping(raw.permissions)
    /\ \A rule \in DocRules(raw) : RuleEntryComplete(rule)
    /\ \A r \in DocRoleKeys(raw) :
           /\ raw.roles.val[r].kind = "map"
           /\ (raw.roles.val[r].extends.kind = "str" /\ raw.roles.val[r].extends.s # "")
                  => raw.roles.val[r].extends.s \in DocRoleKeys(raw)
           /\ raw.roles.val[r].permissions.kind = "list"
                  => Range(raw.roles.val[r].permissions.items) \subseteq DocPermKeys(raw)

\* C6: load_rbac_config returns a config only for a document whose roles and
\* permissions sections are mappings, whose rules all have a non-empty path
\* and a non-empty method list, and whose roles extend defined roles and
\* name defined permissions; otherwise it raises RbacConfigError.
C6_LoadedOnlyIfWellFormed ==
    build.status = "loaded" => DocWellFormed(policy)

(***************************************************************************)
(* Properties of JWKSCache.get_signing_key (SpecJwks)                      *)
(***************************************************************************)
PastEnsure == {"fetch", "store_data", "store_time", "find", "find_again", "key_done"}

\* the call has gone from _ensure_fresh into _refresh
PerformsEntryFetch(c) ==
    (c.pc = "fetch" /\ c.purpose = "ttl") \/ c.fetches - c.forced = 1

\* the cache the call found was non-empty and younger than ttl
EntryFresh(c) == ~c.entry.data.none /\ c.now - c.entry.fetched_at < cache.ttl

\* the first lookup of the call has taken place
LookedUp(c) == c.pc = "key_done" /\ ~(c.failed /\ c.forced = 0)

\* C7: get_signing_key fetches on entry exactly when the cache is empty or
\* its age is at least ttl; a call for a cached kid made less than ttl after
\* the last fetch does not fetch at all and returns the cached key.
C7_FetchOnEntryIffStale ==
    \A t \in Threads :
        LET c == calls[t]
        IN /\ c.pc \in PastEnsure
                  => (PerformsEntryFetch(c) <=>
                         (c.entry.data.none \/ c.now - c.entry.fetched_at >= cache.ttl))
           /\ (c.pc = "key_done" /\ EntryFresh(c) /\ c.kid \in c.entry.data.kids)
                  => (c.fetches = 0 /\ c.result = Returned(Key(c.kid)))

\* C7 witness: a call one instant short of ttl after the last fetch returns a
\* cached key without fetching.
C7_Witness ==
    \E t \in Threads :
        /\ calls[t].pc = "key_done"
        /\ ~calls[t].entry.data.none
        /\ calls[t].now > calls[t].entry.fetched_at
        /\ calls[t].now - calls[t].entry.fetched_at = cache.ttl - 1
        /\ calls[t].fetches = 0
        /\ calls[t].result = Returned(Key(calls[t].kid))

\* C8: a call whose lookup misses the kid performs exactly one forced
\* refetch and returns the key exactly when the refetched set holds the kid;
\* a call whose lookup finds the kid performs none; no call performs more
\* than one forced refetch or more than two fetches, and a call on a fresh
\* cache that lacks the kid fetches exactly once.
C8_OneForcedRefetch ==
    \A t \in Threads :
        LET c == calls[t]
        IN /\ c.forced <= 1
           /\ c.fetches <= 2
           /\ (LookedUp(c) /\ c.kid \notin c.first.kids)
                  => /\ c.forced = 1
                     /\ ~c.failed =>
                            /\ c.result.kind = "key"
                            /\ c.result.key.found <=> c.kid \in c.fetched.kids
                            /\ c.result.key.found => c.result.key.kid = c.kid
           /\ (LookedUp(c) /\ c.kid \in c.first.kids)
                  => (c.forced = 0 /\ c.result = Returned(Key(c.kid)))
           /\ (c.pc = "key_done" /\ EntryFresh(c) /\ c.kid \notin c.entry.data.kids)
                  => c.fetches = 1

\* C8 witness: a stale cache is refetched, the kid is still missing, the one
\* forced refetch brings it, and the key is returned after two fetches.
C8_Witness ==
    \E t \in Threads :
        /\ calls[t].pc = "key_done"
        /\ ~calls[t].entry.data.none
        /\ calls[t].kid \notin calls[t].first.kids
        /\ calls[t].fetches = 2
        /\ calls[t].forced = 1
        /\ calls[t].result = Returned(Key(calls[t].kid))

(***************************************************************************)
(* Properties of validate_and_extract (SpecValidate)                       *)
(***************************************************************************)
\* the key lookup of the call ended without the kid, after the forced refresh
KidUnknownAfterRefresh(c) ==
    c.forced = 1 /\ ~c.failed /\ c.kid \notin c.fetched.kids

\* a defect of the token of a finished call, judged at the instants that
\* bracket its checks: expired already on entry, not yet valid even now
TokenDefect(c) ==
    \/ c.token.kid = NoKid
    \/ KidUnknownAfterRefresh(c)
    \/ c.token.signer # c.token.kid
    \/ \E e \in c.token.exp : c.entry.now - e > ClockSkew
    \/ \E n \in c.token.nbf : n - clock > ClockSkew
    \/ ~c.token.iss_ok
    \/ ~c.token.aud_ok

\* every check of the token passes at some instant of the call
TokenSound(c) ==
    /\ c.token.kid \in c.data.kids
    /\ c.token.signer = c.token.kid
    /\ \A e \in c.token.exp : e > c.entry.now - ClockSkew
    /\ \A n \in c.token.nbf : n <= clock + ClockSkew
    /\ c.token.iss_ok
    /\ c.token.aud_ok

\* With the key set fetched, a defective token is rejected with
\* ValidationError and an identity is returned only for a sound token.
DefectiveTokenRejectedWhenKeysFetched ==
    \A t \in Threads :
        LET c == calls[t]
        IN c.pc = "returned" =>
               /\ (TokenDefect(c) /\ ~c.failed)
                      => (c.result.kind = "raise" /\ c.result.exc = "ValidationError")
               /\ c.result.kind = "identity"
                      => (TokenSound(c) /\ ~TokenDefect(c) /\ c.result.token = c.token)

\* C9: validate_and_extract raises ValidationError and returns no identity
\* for every token without a readable kid, with a kid still unknown after the
\* forced refresh, with a signature that does not verify, expired or not yet
\* valid beyond the leeway, or with a wrong issuer or audience; an identity
\* is returned only when every check passes.
C9_DefectiveTokenRejected ==
    \A t \in Threads :
        LET c == calls[t]
        IN c.pc = "returned" =>
               /\ TokenDefect(c)
                      => (c.result.kind = "raise" /\ c.result.exc = "ValidationError")
               /\ c.result.kind = "identity"
                      => (TokenSound(c) /\ ~TokenDefect(c) /\ c.result.token = c.token)

\* C10: when the key-set fetch fails during validate_and_extract, the caller
\* gets a ValidationError and no identity.
C10_FetchFailureIsValidationError ==
    \A t \in Threads :
        (calls[t].pc = "returned" /\ calls[t].failed)
            => (calls[t].result.kind = "raise" /\ calls[t].result.exc = "ValidationError")

(***************************************************************************)
(* Properties of _extract_claims (SpecClaims)                              *)
(***************************************************************************)
\* the claim is in the payload and is neither null nor empty nor zero
ClaimGiven(v) ==
    /\ v.kind \notin {"absent", "none"}
    /\ v \notin {TextV(""), IntV(0), FloatV(0, 0), BoolV(FALSE), StrV(<<>>), EmptyList}

\* an id as text: a string as it is, a number by its integer part
IdText(v) ==
    CASE v.kind = "text" -> v.s
      [] v.kind = "int" -> ToString(v.n)
      [] v.kind = "float" -> ToString(v.n)
      [] v.kind = "bool" -> IF v.b THEN "1" ELSE "0"

ElementTexts(v) == [i \in 1..Len(v.items) |-> Str(v.items[i])]

\* s[i..j] is a maximal run of non-whitespace characters
IsRun(s, i, j) ==
    /\ 1 <= i /\ i <= j /\ j <= Len(s)
    /\ \A k \in i..j : s[k] \notin Whitespace
    /\ i = 1 \/ s[i - 1] \in Whitespace
    /\ j = Len(s) \/ s[j + 1] \in Whitespace

RunStarts(s) == {i \in 1..Len(s) : \E j \in i..Len(s) : IsRun(s, i, j)}

\* parts is the sequence of the whitespace-separated parts of s
IsPartsOf(parts, s) ==
    /\ Len(parts) = Cardinality(RunStarts(s))
    /\ \A i \in 1..Len(s) : \A j \in i..Len(s) :
           IsRun(s, i, j) =>
               parts[Cardinality({k \in RunStarts(s) : k <= i})] = SubSeq(s, i, j)

ExtractCalls == {t \in Threads : calls[t].op = "extract" /\ calls[t].pc = "returned"}

\* user id, roles and scopes as the claim states them
IdRolesScopesAsStated(p, ctx) ==
    /\ ctx.user_id = (IF ClaimGiven(p.oid) THEN IdText(p.oid)
                      ELSE IF ClaimGiven(p.sub) THEN IdText(p.sub) ELSE "")
    /\ IsList(p.roles) => ctx.roles = ElementTexts(p.roles)
    /\ p.roles.kind = "text" => ctx.roles = <<p.roles.s>>
    /\ p.roles.kind = "absent" => ctx.roles = <<>>
    /\ p.scp.kind = "str" => IsPartsOf(ctx.scopes, p.scp.s)
    /\ IsList(p.scp) => ctx.scopes = ElementTexts(p.scp)
    /\ p.scp.kind = "absent" => ctx.scopes = <<>>
    /\ ctx.preferred_username =
           (IF p.preferred_username.kind \in {"absent", "none"} THEN NoneV
            ELSE TextV(Str(p.preferred_username)))

\* C11 as stated: user id from oid when given and from sub otherwise, roles
\* from a list or a single string or empty, scopes the whitespace-separated
\* parts of a string or the elements of a list, and department and display
\* name passed through whenever the payload carries them, None otherwise.
C11_ExtractClaimsAsStated ==
    \A t \in ExtractCalls :
        LET p == calls[t].token.payload
            ctx == calls[t].result.ctx
        IN /\ IdRolesScopesAsStated(p, ctx)
           /\ ctx.department =
                  (IF p.department.kind \in {"absent", "none"} THEN NoneV
                   ELSE TextV(Str(p.department)))

\* C11 (amended): as stated, except that the department is passed through
\* only when the payload carries it non-empty, and is None when it is
\* absent, null, empty or zero.
C11_ExtractClaims ==
    \A t \in ExtractCalls :
        LET p == calls[t].token.payload
            ctx == calls[t].result.ctx
        IN /\ IdRolesScopesAsStated(p, ctx)
           /\ ctx.department =
                  (IF ClaimGiven(p.department) THEN TextV(Str(p.department))
                   ELSE NoneV)

\* C11 witness: no usable oid, so the id is the sub claim; a single role
\* string, a department, and a scope string of two parts.
C11_Witness ==
    \E t \in ExtractCalls :
        LET p == calls[t].token.payload
            ctx == calls[t].result.ctx
        IN /\ p.oid = TextV("") /\ ctx.user_id = "s1"
           /\ p.roles.kind = "text" /\ ctx.roles = <<"admin">>
           /\ ctx.department = TextV("HR")
           /\ p.scp.kind = "str" /\ Len(p.scp.s) = 7 /\ Len(ctx.scopes) = 2
           /\ ctx.preferred_username = TextV("u")

(***************************************************************************)
(* Properties of the role fallback of validate_and_extract (SpecFallback)  *)
(***************************************************************************)
\* the payload carries roles: a non-empty list or a string
PayloadHasRoles(p) ==
    \/ IsList(p.roles) /\ Len(p.roles.items) > 0
    \/ p.roles.kind = "text"

\* the call has issued the external role lookup
LookupIssued(c) == c.lookups > 0 \/ c.g.posts > 0 \/ c.g.asked # <<>>

\* C12: validate_and_extract issues the role lookup at most once, only
\* after signature, issuer, audience and lifetime checks have succeeded and
\* only when the token carries no roles and the fallback is enabled; roles
\* the lookup returns replace the roles of the extracted identity and
\* nothing else, and without them the extracted identity is returned.
C12_FallbackOnceAfterChecks ==
    \A t \in Threads :
        LET c == calls[t]
            extracted == ExtractClaims(c.token.payload)
        IN c.op = "validate" =>
               /\ c.lookups <= 1
               /\ c.pc \in {"resolve", "app_token", "page", "resolved"} => c.lookups = 1
               /\ LookupIssued(c) =>
                      /\ c.lookups = 1
                      /\ TokenSound(c) /\ ~TokenDefect(c)
                      /\ ~PayloadHasRoles(c.token.payload)
                      /\ entra.graph_enabled
               /\ (c.pc = "returned" /\ c.result.kind = "identity") =>
                      IF c.lookups = 1 /\ c.g.result.roles # <<>>
                      THEN /\ c.result.ctx.roles = c.g.result.roles
                           /\ [c.result.ctx EXCEPT !.roles = <<>>] =
                                  [extracted EXCEPT !.roles = <<>>]
                      ELSE /\ c.result.ctx = extracted
                           /\ c.lookups = 1 => c.result.ctx.roles = <<>>

\* C12 witness: a token without roles, the fallback enabled, and the two
\* roles Graph returned in the identity next to the token's department.
C12_Witness ==
    \E t \in Threads :
        /\ calls[t].op = "validate" /\ calls[t].pc = "returned"
        /\ calls[t].lookups = 1
        /\ calls[t].result.kind = "identity"
        /\ calls[t].result.ctx.roles = <<"G1", "R1">>
        /\ calls[t].result.ctx.department = TextV("HR")

(***************************************************************************)
(* Properties of resolve_roles_via_graph (SpecGraph)                       *)
(***************************************************************************)
ResolvedCalls == {t \in Threads : calls[t].op = "resolve" /\ calls[t].pc = "resolved"}

\* C13: resolve_roles_via_graph returns a list and never raises, whatever
\* the outcome of the credential request and of each membership query,
\* a malformed response body included.
C13_ResolveNeverRaises ==
    \A t \in ResolvedCalls : calls[t].g.result.kind = "roles"

TransportFailures == {"ConnectionError", "Timeout"}

\* C14: a credential failure, or a transport failure on the first or on any
\* later page, makes resolve_roles_via_graph return the empty list.
C14_FailureGivesEmptyList ==
    \A t \in ResolvedCalls :
        calls[t].g.failure \in CredentialFailures \cup TransportFailures
            => calls[t].g.result = RolesReturned(<<>>)

\* all entries of a listing, in page order
RECURSIVE AllEntries(_)
AllEntries(listing) ==
    IF listing = <<>> THEN <<>> ELSE Head(listing) \o AllEntries(Tail(listing))

\* a group or a directory role with a non-empty display name
IsNamedGroup(entry) ==
    /\ entry.odata_type \in {"#microsoft.graph.group", "#microsoft.graph.directoryRole"}
    /\ entry.display_name.kind = "text"
    /\ entry.display_name.s # ""

NamedGroups(listing) == SelectSeq(AllEntries(listing), IsNamedGroup)

\* C15: when every page succeeds the pages are requested once each, in link
\* order, up to the page without a link, and the result is the display
\* names, in page order, of exactly the named groups and directory roles;
\* no request of any call is repeated.
C15_PagesInOrderGroupsOnly ==
    \A t \in Threads :
        LET g == calls[t].g
        IN /\ g.posts <= 1
           /\ \A i \in 1..Len(g.asked) : g.asked[i] = i
           /\ (t \in ResolvedCalls /\ g.failure = "none" /\ g.asked # <<>>) =>
                  /\ g.asked = [i \in 1..Len(directory) |-> i]
                  /\ g.result.kind = "roles"
                  /\ Len(g.result.roles) = Len(NamedGroups(directory))
                  /\ \A i \in 1..Len(g.result.roles) :
                         g.result.roles[i] = NamedGroups(directory)[i].display_name.s

\* C15 witness: two pages read, an administrative unit among the entries,
\* and the three named groups and roles returned in page order.
C15_Witness ==
    \E t \in ResolvedCalls :
        /\ calls[t].g.failure = "none"
        /\ calls[t].g.asked = <<1, 2>>
        /\ directory = <<<<G1, U1, R1>>, <<Entry("#microsoft.graph.group", TextV("")), G2>>>>
        /\ calls[t].g.result = RolesReturned(<<"G1", "R1", "G2">>)

(***************************************************************************)
(* Properties of SecurityConfig.match and _effective (SpecMatch)           *)
(***************************************************************************)
\* the rule's method set holds the method, letter case aside
MethodIn(rule, method) ==
    \E i \in 1..Len(rule.methods) : Upper(rule.methods[i]) = Upper(method)

ExactHits(routes, path, method) ==
    {k \in 1..Len(routes) : routes[k].path = path /\ MethodIn(routes[k], method)}

TemplateHits(routes, path, method) ==
    {k \in 1..Len(routes) :
        /\ RegexMatch(SecPathTemplateToRegex(routes[k].path), path)
        /\ MethodIn(routes[k], method)}

Least(S) == CHOOSE k \in S : \A j \in S : k <= j

\* the position of the rule the precedence selects, 0 for the default
SelectedRule(routes, path, method) ==
    IF ExactHits(routes, path, method) # {}
    THEN Least(ExactHits(routes, path, method))
    ELSE IF TemplateHits(routes, path, method) # {}
    THEN Least(TemplateHits(routes, path, method))
    ELSE 0

MatchedRule ==
    SelectedRule(security_config.model.routes, request.path, request.method)

\* C16: match resolves to the first rule with the request's exact path and
\* method, else to the first rule in declaration order whose template
\* matches and whose methods hold the method, else to the default policy;
\* methods compare case-insensitively.
C16_MatchPrecedence ==
    request.kind = "match" =>
        LET model == security_config.model
        IN request.rule =
               (IF MatchedRule = 0 THEN DefaultEffective(model.default)
                ELSE Effective(model.routes[MatchedRule], model.default))

\* C16 witness: the exact rule /d/7 declared after the template /d/{i}
\* decides GET /d/7, asked in lower case.
C16_Witness ==
    /\ request.kind = "match"
    /\ Len(security_config.model.routes) = 2
    /\ security_config.model.routes[1].path = TplDoc
    /\ security_config.model.routes[1].methods = <<"GET">>
    /\ security_config.model.routes[2].path = PathDoc7
    /\ request.path = PathDoc7
    /\ request.method = "get"
    /\ request.rule.required_roles = {RoleAt[2]}

\* C17: each of required_roles, filter_by_department and
\* require_sensitive_permission of the effective policy is the matched
\* rule's value when the rule sets the field (an explicit false or an
\* explicit empty role list included) and the default's when it does not.
C17_FieldOverride ==
    (request.kind = "match" /\ MatchedRule # 0) =>
        LET default == security_config.model.default
            rule == security_config.model.routes[MatchedRule]
        IN /\ request.rule.required_roles =
                  (IF rule.given_roles THEN Range(rule.required_roles)
                   ELSE Range(default.required_roles))
           /\ request.rule.filter_by_department =
                  (IF rule.filter_by_department = NoneV
                   THEN default.filter_by_department
                   ELSE rule.filter_by_department.b)
           /\ request.rule.require_sensitive_permission =
                  (IF rule.require_sensitive_permission = NoneV
                   THEN default.require_sensitive_permission
                   ELSE rule.require_sensitive_permission.b)

\* the rule carries a security requirement of its own
CarriesRequirement(rule) ==
    \/ rule.required_roles # <<>>
    \/ rule.filter_by_department = BoolV(TRUE)
    \/ rule.require_sensitive_permission = BoolV(TRUE)

\* C18: a matched rule that sets auth_required decides it; one that leaves
\* it unset and carries required roles or a true scoping flag requires
\* auth whatever the default says; one that leaves it unset and carries
\* nothing takes the default's value.
C18_AuthInference ==
    (request.kind = "match" /\ MatchedRule # 0) =>
        LET default == security_config.model.default
            rule == security_config.model.routes[MatchedRule]
        IN request.rule.auth_required =
               (IF rule.auth_required # NoneV THEN rule.auth_required.b
                ELSE IF CarriesRequirement(rule) THEN TRUE
                ELSE default.auth_required)

\* C18 witness: the default is public, the rule leaves auth_required unset
\* and has no roles but scopes by department: auth is required.
C18_Witness ==
    /\ request.kind = "match"
    /\ MatchedRule # 0
    /\ ~security_config.model.default.auth_required
    /\ security_config.model.routes[MatchedRule].auth_required = NoneV
    /\ security_config.model.routes[MatchedRule].required_roles = <<>>
    /\ security_config.model.routes[MatchedRule].filter_by_department = BoolV(TRUE)
    /\ request.rule.auth_required

(***************************************************************************)
(* enforce_security                                                        *)
(***************************************************************************)
\* the effective route policy of the request that ran
RoutePolicy == Match(security_config, request.path, request.method)

\* the route policy or the handler's metadata requires auth
NeedsAuth ==
    \/ RoutePolicy.auth_required
    \/ request.endpoint # NoneV /\ request.endpoint.required_roles # {}
    \/ request.endpoint # NoneV /\ request.endpoint.filter_by_department
    \/ request.endpoint # NoneV /\ request.endpoint.require_sensitive_permission

\* the header is  Bearer <integer>  and the integer is the id of u
Names(header, u) ==
    /\ header.kind = "str"
    /\ StartsWith(header.s, BearerPrefix \o <<" ">>)
    /\ LET token == Strip(SubSeq(header.s, Len(BearerPrefix) + 2, Len(header.s)))
       IN IntOfText(token).ok /\ IntOfText(token).value = u.id

\* the active users the header names: one when the identity is established,
\* none for a missing header, a malformed or empty bearer value, a
\* non-integer token, an unknown user and an inactive user
Identified == {u \in UserTable : u.is_active /\ Names(request.header, u)}

\* C19: enforce_security returns without building a context, without
\* reading the Authorization header and without loading a user if and only
\* if neither the effective route policy nor the handler's metadata requires
\* auth; otherwise every failure to establish the identity fails the request
\* as unauthenticated (401) and attaches no AuthzContext.
C19_NoAuthOrUnauthenticated ==
    request.kind = "enforce" =>
        /\ (/\ request.status_code = 0
             /\ request.authz = NoneV
             /\ request.user = NoneV
             /\ request.steps = <<"match">>) <=> ~NeedsAuth
        /\ NeedsAuth /\ Identified = {} =>
               request.status_code = 401 /\ request.authz = NoneV

\* C20: when auth is required and the identity is established, the request
\* is admitted if and only if the merged required-role set (the route
\* policy's roles united with the handler's roles) is empty or intersects
\* the user's roles; otherwise it fails as forbidden (403) with no
\* AuthzContext attached.  The role gate is never evaluated before the
\* identity is established.
C20_RoleGate ==
    request.kind = "enforce" =>
        LET merged == RoutePolicy.required_roles \cup
                          (IF request.endpoint = NoneV THEN {}
                           ELSE request.endpoint.required_roles)
            admitted == request.status_code = 0 /\ request.authz # NoneV
        IN /\ NeedsAuth /\ Identified # {} =>
                  \A u \in Identified :
                      /\ admitted <=> (merged = {} \/ merged \cap u.roles # {})
                      /\ ~admitted =>
                             request.status_code = 403 /\ request.authz = NoneV
           /\ \A i \in 1..Len(request.steps) :
                  request.steps[i] = "role_gate" =>
                      /\ Identified # {}
                      /\ request.user \in Identified
                      /\ \E j \in 1..(i - 1) : request.steps[j] = "load_user"

\* a user holding none of the route's roles is admitted through a role the
\* handler asks for
C20_Witness ==
    /\ request.kind = "enforce"
    /\ request.status_code = 0
    /\ request.authz # NoneV
    /\ RoutePolicy.required_roles # {}
    /\ RoutePolicy.required_roles \cap request.user.roles = {}
    /\ request.endpoint # NoneV
    /\ request.endpoint.required_roles \cap request.user.roles # {}

\* the roles the configuration lists for a capability
ConfiguredRoles(name) == security_config.model.permissions[name]

\* the request ended normally with an AuthzContext
Admitted ==
    /\ request.kind = "enforce"
    /\ request.status_code = 0
    /\ request.authz # NoneV

\* C21: the AuthzContext of an admitted request has each scoping flag equal
\* to the OR of the route-level and the handler-level flag, a permission set
\* of exactly the configured capabilities whose role list meets the user's
\* roles, the two capability booleans true iff view_cross_department /
\* view_sensitive_data is in that set, and the id, department and roles of
\* the loaded user record.
C21_ContextAsStated ==
    Admitted =>
        LET authz == request.authz
            handler == request.endpoint
        IN /\ \E u \in UserTable :
                  /\ Names(request.header, u)
                  /\ authz.user_id = u.id
                  /\ authz.department_id = u.department_id
                  /\ authz.roles = u.roles
           /\ authz.filter_by_department =
                  (RoutePolicy.filter_by_department
                   \/ (handler # NoneV /\ handler.filter_by_department))
           /\ authz.require_sensitive_permission =
                  (RoutePolicy.require_sensitive_permission
                   \/ (handler # NoneV /\ handler.require_sensitive_permission))
           /\ \A name \in DOMAIN security_config.model.permissions :
                  name \in authz.permissions <=>
                      ConfiguredRoles(name) \cap authz.roles # {}
           /\ authz.permissions \subseteq DOMAIN security_config.model.permissions
           /\ authz.can_view_cross_department =
                  ("view_cross_department" \in authz.permissions)
           /\ authz.can_view_sensitive_data =
                  ("view_sensitive_data" \in authz.permissions)

\* a user holding one capability but not the other is admitted on a route
\* that does not scope by department through a handler that does
C21_Witness ==
    /\ Admitted
    /\ ~RoutePolicy.filter_by_department
    /\ request.endpoint # NoneV
    /\ request.endpoint.filter_by_department
    /\ request.authz.filter_by_department
    /\ request.authz.can_view_sensitive_data
    /\ ~request.authz.can_view_cross_department

(***************************************************************************)
(* Data scoping                                                            *)
(***************************************************************************)
\* a statement was executed on a session that carries an AuthzContext
ScopedSession == request.kind = "execute" /\ request.info.authz # NoneV

IsRead(statement) == statement.kind \in {"select", "text"}

DepartmentActive(authz) ==
    authz.filter_by_department /\ ~authz.can_view_cross_department

SensitivityActive(authz) ==
    authz.require_sensitive_permission /\ ~authz.can_view_sensitive_data

\* the two conditions on a row of an enrolled entity type
Visible(row, authz) ==
    /\ DepartmentActive(authz) => row.department_id = authz.department_id
    /\ SensitivityActive(authz) => ~row.is_sensitive

VisibleTuple(t, authz) ==
    \A i \in 1..Len(t) : t[i].entity \in EnrolledEntities => Visible(t[i], authz)

\* what the statement as written returns from the stored rows
UnscopedResult == ResultOf(request.statement, request.stored)

ReadsEnrolled(statement) ==
    IsRead(statement) /\ statement.entities \cap EnrolledEntities # {}

\* C22: a read on a session that carries an AuthzContext returns exactly
\* the stored rows of the enrolled entity type that satisfy both
\* conditions: department scoping active implies the row's department is
\* the context's, sensitivity scoping active implies the row is not
\* sensitive.
C22_ReadReturnsVisibleRows ==
    (ScopedSession /\ ReadsEnrolled(request.statement)) =>
        request.result =
            {t \in UnscopedResult : VisibleTuple(t, request.info.authz)}

\* the same for the reads that are select constructs
SelectReturnsVisibleRows ==
    (ScopedSession /\ ReadsEnrolled(request.statement)
     /\ request.statement.kind = "select") =>
        request.result =
            {t \in UnscopedResult : VisibleTuple(t, request.info.authz)}

\* C23: the hook leaves unchanged every non-select statement and every
\* statement of a session without AuthzContext, and never modifies the
\* AuthzContext or the stored rows: a write acts as written, a read leaves
\* the rows alone and returns no more than the statement as written.
C23_HookFrame ==
    request.kind = "execute" =>
        /\ (request.statement.kind # "select" \/ request.info.authz = NoneV) =>
               /\ request.executed = request.statement
               /\ request.result = UnscopedResult
               /\ request.stored_after = StoredAfter(request.statement, request.stored)
        /\ request.info_after = request.info
        /\ IsRead(request.statement) => request.stored_after = request.stored
        /\ request.result \subseteq UnscopedResult

\* an update of a sensitive row of another department by a caller whose
\* reads are scoped both ways
C23_Witness ==
    /\ ScopedSession
    /\ DepartmentActive(request.info.authz)
    /\ SensitivityActive(request.info.authz)
    /\ request.statement.kind = "update"
    /\ request.stored_after # request.stored
    /\ \E r \in request.stored \ request.stored_after :
           /\ r.is_sensitive
           /\ r.department_id # request.info.authz.department_id

\* C24: every read of an enrolled entity type on a request's session while
\* a department or sensitivity predicate is active returns only rows that
\* satisfy the active predicates, whatever the form of the read.
C24_NoReadBypassesScoping ==
    (/\ ScopedSession
     /\ ReadsEnrolled(request.statement)
     /\ (DepartmentActive(request.info.authz)
         \/ SensitivityActive(request.info.authz))) =>
        \A t \in request.result : VisibleTuple(t, request.info.authz)

\* the same for the reads that are select constructs
SelectNeverBypassesScoping ==
    (/\ ScopedSession
     /\ ReadsEnrolled(request.statement)
     /\ request.statement.kind = "select") =>
        \A t \in request.result : VisibleTuple(t, request.info.authz)

(***************************************************************************)
(* The service credential                                                  *)
(***************************************************************************)
\* get_or_refresh has given the call a credential
Served(t) == calls[t].g.served # NoCredential

\* C25: a credential returned by get_or_refresh is never one whose stated
\* lifetime, counted from its acquisition, has already elapsed.
C25_ServedCredentialNotExpired ==
    \A t \in Threads :
        Served(t) =>
            calls[t].g.served_at <
                calls[t].g.served.acquired_at + calls[t].g.served.expires_in

\* the same for the credentials that state at least MinCacheSeconds
LongCredentialNotExpired ==
    \A t \in Threads :
        (Served(t) /\ calls[t].g.served.expires_in >= MinCacheSeconds) =>
            calls[t].g.served_at <
                calls[t].g.served.acquired_at + calls[t].g.served.expires_in

(***************************************************************************)
(* Concurrent callers of one JWKSCache                                     *)
(***************************************************************************)
\* a caller is about to read the cache in _ensure_fresh or holds what it read
Observes(t) == calls[t].pc = "ensure"

\* C26: under every interleaving of concurrent get_signing_key callers,
\* the cached key set and the fetch timestamp a caller observes come from
\* one and the same refresh (the snapshot is swapped whole).
C26_SnapshotFromOneRefresh ==
    \A t \in DOMAIN calls :
        Observes(t) => cache.data_by = cache.fetched_at_by

(***************************************************************************)
(* Validations of one process                                              *)
(***************************************************************************)
\* the validation of t ended with an identity
Validated(t) ==
    calls[t].pc = "returned" /\ calls[t].result.kind = "identity"

Apart(t, u) ==
    IF calls[t].now >= calls[u].now THEN calls[t].now - calls[u].now
    ELSE calls[u].now - calls[t].now

\* C27: all validations of a process share one signing-key cache: two
\* validated tokens with the same published kid, less than ttl apart, cost
\* at most one fetch of the key set, through an instance or through the
\* module-level function.
C27_TwoValidationsOneFetch ==
    \A t, u \in DOMAIN calls :
        (/\ t # u
         /\ Validated(t)
         /\ Validated(u)
         /\ calls[t].token.kid = calls[u].token.kid
         /\ Apart(t, u) < cache.ttl) =>
            calls[t].fetches + calls[u].fetches <= 1

(***************************************************************************)
(* Path templates by segments                                              *)
(***************************************************************************)
\* the slash-separated segments of s: one more than its slashes
RECURSIVE SegmentsFrom(_, _, _)
SegmentsFrom(s, i, current) ==
    IF i > Len(s) THEN <<current>>
    ELSE IF s[i] = "/" THEN <<current>> \o SegmentsFrom(s, i + 1, <<>>)
    ELSE SegmentsFrom(s, i + 1, Append(current, s[i]))

Segments(s) == SegmentsFrom(s, 1, <<>>)

\* a segment of the form {name}
Bracketed(segment) ==
    /\ Len(segment) >= 3
    /\ segment[1] = "{"
    /\ segment[Len(segment)] = "}"

MatchesBySegments(template, path) ==
    LET ts == Segments(template)
        ps == Segments(path)
    IN /\ Len(ts) = Len(ps)
       /\ \A i \in 1..Len(ts) :
              IF Bracketed(ts[i]) THEN Len(ps[i]) > 0 ELSE ts[i] = ps[i]

\* C28: a template matches a path if and only if both have the same number
\* of slash-separated segments, every literal template segment equals the
\* path segment character for character and every bracketed segment faces
\* one non-empty path segment; RbacEngine and SecurityConfig decide alike.
C28_TemplateMatchBySegments ==
    request.kind = "template" =>
        /\ request.rbac = MatchesBySegments(request.template, request.path)
        /\ request.security = request.rbac

\* the two modules decide alike
ModulesMatchAlike ==
    request.kind = "template" => request.security = request.rbac

\* the same for templates whose literal segments hold no regex source and
\* no brace, and paths without a line end
PlainTemplateMatchBySegments ==
    (/\ request.kind = "template"
     /\ "\n" \notin Range(request.path)
     /\ \A i \in 1..Len(Segments(request.template)) :
            LET segment == Segments(request.template)[i]
            IN Bracketed(segment)
                   => Range(SubSeq(segment, 2, Len(segment) - 1))
                          \cap {"{", "}"} = {}
     /\ \A i \in 1..Len(Segments(request.template)) :
            LET segment == Segments(request.template)[i]
            IN ~Bracketed(segment) => Range(segment) \cap {".", "{", "}"} = {}) =>
        request.rbac = MatchesBySegments(request.template, request.path)

(***************************************************************************)
(* Requirements without authentication                                     *)
(***************************************************************************)
\* the merged policy of the request carries a role or a scoping requirement
MergedRequirement ==
    LET handler == request.endpoint
    IN \/ RoutePolicy.required_roles # {}
       \/ RoutePolicy.filter_by_department
       \/ RoutePolicy.require_sensitive_permission
       \/ handler # NoneV /\ handler.required_roles # {}
       \/ handler # NoneV /\ handler.filter_by_department
       \/ handler # NoneV /\ handler.require_sensitive_permission

\* C29: whenever the merged policy of a request has a non-empty
\* required-role set or a set scoping flag, enforce_security fails the
\* request or builds an AuthzContext: the request never proceeds without
\* an authenticated identity.
C29_RequirementNeedsIdentity ==
    (request.kind = "enforce" /\ MergedRequirement) =>
        request.status_code # 0 \/ request.authz # NoneV

\* the same when the requirement comes from the handler or the matched
\* policy requires auth
RequirementWithAuthNeedsIdentity ==
    (request.kind = "enforce" /\ MergedRequirement /\ NeedsAuth) =>
        request.status_code # 0 \/ request.authz # NoneV

(***************************************************************************)
(* A failed key-set fetch                                                  *)
(***************************************************************************)
\* t1's call has ended in a failed fetch
FetchFailed == calls["t1"].pc = "key_done" /\ calls["t1"].failed

\* the key set and the timestamp the cache held when the failing fetch of
\* t1's call began: those of the entry of the call when the ttl refetch
\* failed, those the ttl refetch stored when the forced refetch failed
DataBefore ==
    IF calls["t1"].fetches = 1 THEN calls["t1"].entry.data ELSE calls["t1"].fetched
FetchedAtBefore ==
    IF calls["t1"].fetches = 1 THEN calls["t1"].entry.fetched_at ELSE calls["t1"].now

\* the later call has ended, a call for a kid of the set cached before the
\* failure, made within ttl of the fetch that stored it
LaterCallWithinTtl ==
    /\ FetchFailed
    /\ calls["t2"].pc = "key_done"
    /\ ~DataBefore.none
    /\ calls["t2"].kid \in DataBefore.kids
    /\ calls["t2"].now - calls["t2"].entry.fetched_at < cache.ttl

\* C30: a key-set fetch that fails, on the ttl refetch or on the forced
\* refetch, leaves the cached key set and the fetch timestamp as they were:
\* the cache holds them until the later call fetches, the later call reads
\* them on entry, and a later call made within the ttl of the last
\* successful fetch returns the key of the previously cached set without
\* fetching.
C30_FailedFetchLeavesCache ==
    /\ (FetchFailed /\ calls["t2"].fetches = 0)
           => cache.data = DataBefore
    /\ (FetchFailed /\ calls["t2"].fetches = 0 /\ calls["t1"].fetches = 1)
           => cache.fetched_at = FetchedAtBefore
    /\ (FetchFailed /\ calls["t2"].pc # "idle")
           => calls["t2"].entry.data = DataBefore
    /\ LaterCallWithinTtl
           => /\ calls["t2"].fetches = 0
              /\ calls["t2"].result = Returned(Key(calls["t2"].kid))

\* C30 witness: the forced refetch of t1's call failed on a warm cache, and
\* a later call within ttl returned a key of the cached set without fetching.
C30_Witness ==
    /\ LaterCallWithinTtl
    /\ calls["t1"].forced = 1
    /\ calls["t1"].fetches = 1
    /\ calls["t2"].now > calls["t1"].now
    /\ calls["t2"].fetches = 0
    /\ calls["t2"].result = Returned(Key(calls["t2"].kid))

============================================================================
